---- MODULE Spec2Model ----
(***************************************************************************)
(* SevaFlow: the grievance store (app/database.py), the registration       *)
(* handler (app/api/complaints.py, app/telegram/bot.py), the admin status  *)
(* update (app/api/admin.py) and the router (app/services/router.py).      *)
(*                                                                         *)
(* Every database function opens its own aiosqlite connection.  Python's   *)
(* sqlite3 runs a SELECT outside any transaction and opens a transaction   *)
(* implicitly before the first INSERT/UPDATE of a connection; SQLite then  *)
(* admits one writing connection at a time, and the other connections read *)
(* the committed tables until the writer commits.  Every `await` is a      *)
(* point at which the event loop may run another handler.                  *)
(***************************************************************************)
EXTENDS Integers, Sequences, FiniteSets, TLC

VARIABLES
    complaints,      \* committed rows of table complaints, in rowid order
    status_history,  \* committed rows of table status_history, in rowid order
    wowner,          \* the handler whose connection holds the write transaction, or 0
    wcomplaints,     \* the writing connection's uncommitted view of complaints
    whistory,        \* the writing connection's uncommitted view of status_history
    clock,           \* wall clock, in ticks
    proc,            \* per handler: position, arguments and locals
    response         \* what the step just taken answered to its caller, if it answered

vars == <<complaints, status_history, wowner, wcomplaints, whistory, clock, proc, response>>

(***************************************************************************)
(* Bounds of the model.                                                    *)
(***************************************************************************)
MaxComplaints == 2
MaxHistory == 3
MaxClock == 1

Procs == {1, 2}

NoneVal == "None"

(***************************************************************************)
(* app/models.py and app/config.py                                         *)
(***************************************************************************)
ComplaintStatus == {"submitted", "assigned", "in_progress", "resolved", "escalated", "closed"}

PriorityLevel == {"low", "medium", "high"}

\* the keys of DEPARTMENTS in the order the dict is written, which is the order it iterates in
DepartmentNames ==
    <<"MCD Electrical", "Delhi Jal Board", "PWD", "MCD Sanitation", "Traffic Police",
      "Delhi Police", "BSES/TPDDL", "DDA", "General Helpdesk">>

DEPARTMENTS ==
    [d \in {DepartmentNames[i] : i \in DOMAIN DepartmentNames} |->
        CASE d = "MCD Electrical" ->
               [keywords |-> <<"streetlight", "light", "electricity", "power", "electrical", "lamp", "bulb">>,
                sla_hours |-> 48]
          [] d = "Delhi Jal Board" ->
               [keywords |-> <<"water", "sewage", "drainage", "pipe", "leakage", "supply", "tanker">>,
                sla_hours |-> 72]
          [] d = "PWD" ->
               [keywords |-> <<"road", "pothole", "pavement", "footpath", "bridge", "flyover", "construction">>,
                sla_hours |-> 96]
          [] d = "MCD Sanitation" ->
               [keywords |-> <<"garbage", "trash", "waste", "cleaning", "sanitation", "dustbin", "sweeper">>,
                sla_hours |-> 24]
          [] d = "Traffic Police" ->
               [keywords |-> <<"traffic", "signal", "parking", "challan", "jam", "violation", "zebra">>,
                sla_hours |-> 24]
          [] d = "Delhi Police" ->
               [keywords |-> <<"crime", "theft", "robbery", "safety", "police", "emergency", "harassment">>,
                sla_hours |-> 12]
          [] d = "BSES/TPDDL" ->
               [keywords |-> <<"meter", "bill", "voltage", "transformer", "outage", "fluctuation">>,
                sla_hours |-> 48]
          [] d = "DDA" ->
               [keywords |-> <<"park", "garden", "encroachment", "land", "colony", "development">>,
                sla_hours |-> 120]
          [] OTHER ->
               [keywords |-> <<>>,
                sla_hours |-> 72]]

\* PRIORITY_KEYWORDS, in the order the dict is written
PRIORITY_KEYWORDS ==
    <<[level |-> "high",
       keywords |-> <<"urgent", "emergency", "dangerous", "hazard", "safety", "crime", "accident", "fire">>],
      [level |-> "medium",
       keywords |-> <<"broken", "not working", "issue", "problem", "complaint">>],
      [level |-> "low",
       keywords |-> <<"request", "suggestion", "feedback", "improvement">>]>>

Max(a, b) == IF a >= b THEN a ELSE b

\* low priority given twice the base
TimesOneAndHalf_Doubled(h) == h * 2

\* int(sla_hours * 1.5): the product is exact in binary floating point for
\* every integer in range, and int() truncates it.
TimesOneAndHalf(h) == (h * 3) \div 2

\* high priority handled as a quarter of the base, the floor forgotten
route_complaint_Quartered(ai) ==
    LET department == IF ai.responsible_department \in DOMAIN DEPARTMENTS
                      THEN ai.responsible_department ELSE "General Helpdesk"
        base == DEPARTMENTS[department].sla_hours
    IN  <<department, CASE ai.priority = "high" -> base \div 4
                        [] ai.priority = "low" -> TimesOneAndHalf(base)
                        [] OTHER -> base>>

\* every complaint sent to the default department
route_complaint_AlwaysDefault(ai) ==
    LET base == DEPARTMENTS["General Helpdesk"].sla_hours
    IN  <<"General Helpdesk", CASE ai.priority = "high" -> Max(base \div 2, 6)
                                [] ai.priority = "low" -> TimesOneAndHalf(base)
                                [] OTHER -> base>>

\* the department taken from the extraction as it is, only the hours defaulted
route_complaint_Unvalidated(ai) ==
    LET base == IF ai.responsible_department \in DOMAIN DEPARTMENTS
                THEN DEPARTMENTS[ai.responsible_department].sla_hours
                ELSE DEPARTMENTS["General Helpdesk"].sla_hours
    IN  <<ai.responsible_department, CASE ai.priority = "high" -> Max(base \div 2, 6)
                                       [] ai.priority = "low" -> TimesOneAndHalf(base)
                                       [] OTHER -> base>>

\* high priority held to at least 60 hours instead of 6
route_complaint_FloorOfSixty(ai) ==
    LET department == IF ai.responsible_department \in DOMAIN DEPARTMENTS
                      THEN ai.responsible_department ELSE "General Helpdesk"
        base == DEPARTMENTS[department].sla_hours
    IN  <<department, CASE ai.priority = "high" -> Max(base \div 2, 60)
                        [] ai.priority = "low" -> TimesOneAndHalf(base)
                        [] OTHER -> base>>

route_complaint(ai) ==
    LET department == IF ai.responsible_department \in DOMAIN DEPARTMENTS
                      THEN ai.responsible_department ELSE "General Helpdesk"
        base == DEPARTMENTS[department].sla_hours
        sla_hours == CASE ai.priority = "high" -> Max(base \div 2, 6)
                       [] ai.priority = "low" -> TimesOneAndHalf(base)
                       [] OTHER -> base
    IN  <<department, sla_hours>>

(***************************************************************************)
(* app/services/ai_processor.py: the rule-based extraction.  Texts are     *)
(* strings; `keyword in text_lower` is containment as a substring.         *)
(***************************************************************************)
MinOf(S) == CHOOSE m \in S : \A x \in S : m <= x

MaxOf(S) == CHOOSE m \in S : \A x \in S : m >= x

CharAt(text, i) == SubSeq(text, i, i)

LowerChar(c) ==
    CASE c = "A" -> "a" [] c = "B" -> "b" [] c = "C" -> "c" [] c = "D" -> "d" [] c = "E" -> "e" [] c = "F" -> "f"
      [] c = "G" -> "g" [] c = "H" -> "h" [] c = "I" -> "i" [] c = "J" -> "j" [] c = "K" -> "k" [] c = "L" -> "l"
      [] c = "M" -> "m" [] c = "N" -> "n" [] c = "O" -> "o" [] c = "P" -> "p" [] c = "Q" -> "q" [] c = "R" -> "r"
      [] c = "S" -> "s" [] c = "T" -> "t" [] c = "U" -> "u" [] c = "V" -> "v" [] c = "W" -> "w" [] c = "X" -> "x"
      [] c = "Y" -> "y" [] c = "Z" -> "z"
      [] OTHER -> c

RECURSIVE Lower(_)
\* text.lower()
Lower(text) ==
    IF Len(text) = 0 THEN ""
    ELSE LowerChar(CharAt(text, 1)) \o Lower(SubSeq(text, 2, Len(text)))

\* text[i:].startswith(word), positions counted from 1
StartsAt(text, i, word) ==
    /\ i + Len(word) - 1 <= Len(text)
    /\ SubSeq(text, i, i + Len(word) - 1) = word

\* keyword in text
Contains(text, keyword) == \E i \in 1..Len(text) : StartsAt(text, i, keyword)

\* any(keyword in text_lower for keyword in keywords)
AnyKeyword(text_lower, keywords) ==
    \E k \in DOMAIN keywords : Contains(text_lower, keywords[k])

\* the department loop taking the last department that matches instead of breaking at the first
FallbackDepartment_LastMatch(text_lower) ==
    LET hits == {i \in DOMAIN DepartmentNames :
                    AnyKeyword(text_lower, DEPARTMENTS[DepartmentNames[i]].keywords)}
    IN  IF hits = {} THEN "General Helpdesk" ELSE DepartmentNames[MaxOf(hits)]

\* for dept_name, dept_info in DEPARTMENTS.items(): ... break at the first match
FallbackDepartment(text_lower) ==
    LET hits == {i \in DOMAIN DepartmentNames :
                    AnyKeyword(text_lower, DEPARTMENTS[DepartmentNames[i]].keywords)}
    IN  IF hits = {} THEN "General Helpdesk" ELSE DepartmentNames[MinOf(hits)]

\* the priority loop taking the last level that matches instead of breaking at the first
FallbackPriority_LastMatch(text_lower) ==
    LET hits == {i \in DOMAIN PRIORITY_KEYWORDS :
                    AnyKeyword(text_lower, PRIORITY_KEYWORDS[i].keywords)}
    IN  IF hits = {} THEN "medium" ELSE PRIORITY_KEYWORDS[MaxOf(hits)].level

\* for level, keywords in PRIORITY_KEYWORDS.items(): ... break at the first match
FallbackPriority(text_lower) ==
    LET hits == {i \in DOMAIN PRIORITY_KEYWORDS :
                    AnyKeyword(text_lower, PRIORITY_KEYWORDS[i].keywords)}
    IN  IF hits = {} THEN "medium" ELSE PRIORITY_KEYWORDS[MinOf(hits)].level

Letters ==
    {"a", "b", "c", "d", "e", "f", "g", "h", "i", "j", "k", "l", "m",
     "n", "o", "p", "q", "r", "s", "t", "u", "v", "w", "x", "y", "z",
     "A", "B", "C", "D", "E", "F", "G", "H", "I", "J", "K", "L", "M",
     "N", "O", "P", "Q", "R", "S", "T", "U", "V", "W", "X", "Y", "Z"}

IsLetter(c) == c \in Letters

\* \s
IsSpace(c) == c \in {" ", "\t", "\n", "\r", "\f"}

\* (?:near|at|in|around)
LocationWords == <<"near", "at", "in", "around">>

\* (?:metro|station|gate|market|colony|nagar|vihar|park|road|street|block|sector)
LocationNouns ==
    <<"metro", "station", "gate", "market", "colony", "nagar", "vihar", "park", "road",
      "street", "block", "sector">>

\* Where [A-Z][a-zA-Z\s]+(?:metro|...) matched from position g ends, 0 when it
\* does not match there; low is the text in lower case.  With IGNORECASE [A-Z]
\* is any letter; the greedy run gives letters and spaces back until a noun
\* follows it, so the noun that starts last is taken.
GroupEnd(text, low, g) ==
    LET starts == {k \in (g + 2)..Len(text) :
                      /\ \E n \in DOMAIN LocationNouns : StartsAt(low, k, LocationNouns[n])
                      /\ \A j \in (g + 1)..(k - 1) :
                             IsLetter(CharAt(text, j)) \/ IsSpace(CharAt(text, j))}
    IN  IF g > Len(text) \/ ~IsLetter(CharAt(text, g)) \/ starts = {} THEN 0
        ELSE LET k == MaxOf(starts)
                 n == CHOOSE n \in DOMAIN LocationNouns : StartsAt(low, k, LocationNouns[n])
             IN  k + Len(LocationNouns[n]) - 1

\* where the group of the first pattern starts when the pattern is tried at
\* position s: after one of the words and the white space that follows it; 0
\* when no word and white space are there
GroupStartAfterWord(text, low, s) ==
    LET words == {w \in DOMAIN LocationWords :
                     /\ StartsAt(low, s, LocationWords[w])
                     /\ s + Len(LocationWords[w]) <= Len(text)
                     /\ IsSpace(CharAt(text, s + Len(LocationWords[w])))}
    IN  IF words = {} THEN 0
        ELSE LET after == s + Len(LocationWords[CHOOSE w \in words : TRUE])
             IN  MinOf({g \in after..(Len(text) + 1) :
                           g = Len(text) + 1 \/ ~IsSpace(CharAt(text, g))})

\* re.search of one pattern: the group of the leftmost match, "" without a match
SearchLocation(text, low, with_word) ==
    LET starts == [s \in 1..Len(text) |->
                      IF with_word THEN GroupStartAfterWord(text, low, s) ELSE s]
        ends == [s \in 1..Len(text) |->
                    IF starts[s] = 0 THEN 0 ELSE GroupEnd(text, low, starts[s])]
        found == {s \in 1..Len(text) : ends[s] # 0}
    IN  IF found = {} THEN ""
        ELSE SubSeq(text, starts[MinOf(found)], ends[MinOf(found)])

\* re.search of the two patterns in turn, match.group(1).strip(); a group
\* begins and ends with a letter, so strip() leaves it as it is
LocationOf(text, low) ==
    IF SearchLocation(text, low, TRUE) # "" THEN SearchLocation(text, low, TRUE)
    ELSE IF SearchLocation(text, low, FALSE) # "" THEN SearchLocation(text, low, FALSE)
    ELSE "Location not specified"

extract_location_fallback(text) == LocationOf(text, Lower(text))

\* issue_mappings, in the order the dict is written
IssueMappings ==
    <<<<"streetlight", "Streetlight issue">>, <<"pothole", "Pothole on road">>,
      <<"garbage", "Garbage collection issue">>, <<"water", "Water supply issue">>,
      <<"sewage", "Sewage/drainage issue">>, <<"traffic", "Traffic issue">>,
      <<"parking", "Parking problem">>, <<"crime", "Law & order issue">>,
      <<"road", "Road maintenance issue">>, <<"electricity", "Electricity issue">>>>

\* text_lower = text.lower(); the first mapping whose keyword it contains
IssueTypeOf(text_lower) ==
    LET hits == {i \in DOMAIN IssueMappings : Contains(text_lower, IssueMappings[i][1])}
    IN  IF hits = {} THEN "General complaint" ELSE IssueMappings[MinOf(hits)][2]

\* the department argument of the source is not used
generate_issue_type_fallback(text) == IssueTypeOf(Lower(text))

\* confidence=0.5, in hundredths
FallbackConfidence == 50

\* text[:100] + "..." if len(text) > 100 else text
FallbackSummary(text) ==
    IF Len(text) > 100 THEN SubSeq(text, 1, 100) \o "..." ELSE text

\* the result built from the text and text_lower = text.lower()
FallbackResult(text, text_lower) ==
    [issue_type |-> IssueTypeOf(text_lower),
     location |-> LocationOf(text, text_lower),
     responsible_department |-> FallbackDepartment(text_lower),
     priority |-> FallbackPriority(text_lower),
     confidence |-> FallbackConfidence,
     summary |-> FallbackSummary(text)]

\* the complaint texts of the model
ClassifyTexts ==
    {"Streetlight near Laxmi Nagar metro gate broken for 3 days",
     "Garbage dumped on the road is a hazard",
     "Request: dangerous pothole in Rohini park road",
     "My neighbour plays loud music every evening",
     "Delightful garden feedback"}

\* the results for the texts of the model, computed once
FallbackResults == [text \in ClassifyTexts |-> FallbackResult(text, Lower(text))]

fallback_extraction(text) ==
    IF text \in ClassifyTexts THEN FallbackResults[text] ELSE FallbackResult(text, Lower(text))

(***************************************************************************)
(* app/services/ai_processor.py: the model-backed extraction.  A confidence *)
(* is written in hundredths (0.92 is 92).  A JSON value is a record: t is  *)
(* its JSON type, s its text when it is a string, n its number in          *)
(* hundredths when it is a number.                                         *)
(***************************************************************************)
Str(s) == [t |-> "str", s |-> s, n |-> 0]

Num(n) == [t |-> "num", s |-> "", n |-> n]

Null == [t |-> "null", s |-> "", n |-> 0]

\* a well-formed answer
JsonGood ==
    "{\"issue_type\": \"Streetlight issue\", "
    \o "\"location\": \"Laxmi Nagar\", "
    \o "\"responsible_department\": \"MCD Electrical\", "
    \o "\"priority\": \"high\", \"confidence\": 0.92, "
    \o "\"summary\": \"Streetlight broken\"}"

\* a well-formed answer the model is unsure of
JsonUnsure ==
    "{\"issue_type\": \"Noise\", \"location\": \"Not specified\", "
    \o "\"responsible_department\": \"Delhi Police\", "
    \o "\"priority\": \"low\", \"confidence\": 0.3, "
    \o "\"summary\": \"Loud music\"}"

\* a well-formed answer with confidence 0.5
JsonHalfSure ==
    "{\"responsible_department\": \"PWD\", \"priority\": \"medium\", "
    \o "\"confidence\": 0.5}"

\* a department the configuration does not have, the confidence written as a string
JsonUnknownDepartment ==
    "{\"issue_type\": \"Stray dogs\", \"location\": \"Saket\", "
    \o "\"responsible_department\": \"Municipal Office\", "
    \o "\"priority\": \"medium\", \"confidence\": \"0.9\", "
    \o "\"summary\": \"Stray dogs\"}"

\* a priority outside the enumeration
JsonBadPriority ==
    "{\"responsible_department\": \"PWD\", \"priority\": \"urgent\", "
    \o "\"confidence\": 0.9}"

\* a confidence above one
JsonOverConfident ==
    "{\"responsible_department\": \"PWD\", \"priority\": \"high\", "
    \o "\"confidence\": 1.5}"

\* a confidence below zero
JsonNegativeConfidence ==
    "{\"responsible_department\": \"PWD\", \"priority\": \"high\", "
    \o "\"confidence\": -0.1}"

\* a confidence that is not a number
JsonWordConfidence ==
    "{\"responsible_department\": \"PWD\", \"priority\": \"high\", "
    \o "\"confidence\": \"high\"}"

\* a null confidence
JsonNullConfidence ==
    "{\"responsible_department\": \"PWD\", \"priority\": \"high\", "
    \o "\"confidence\": null}"

\* a null issue_type
JsonNullIssue ==
    "{\"issue_type\": null, \"responsible_department\": \"PWD\", "
    \o "\"priority\": \"high\"}"

\* the fence of a code block, three grave accents; a string constant here cannot
\* hold that character, the apostrophe stands for it
Fence == "'''"

\* the answers the chat completion may carry as its content: the objects above, bare
\* or inside a code fence, and texts that are no JSON object
Contents ==
    {JsonGood, JsonUnsure, JsonHalfSure, JsonUnknownDepartment, JsonBadPriority,
     JsonOverConfident, JsonNegativeConfidence, JsonWordConfidence, JsonNullConfidence,
     JsonNullIssue, "{}", "[]", "", "I cannot help with that.",
     Fence \o "json\n" \o JsonGood \o "\n" \o Fence,
     Fence \o "\n" \o JsonUnsure \o "\n" \o Fence \o "\n",
     "  " \o JsonHalfSure \o "\n",
     "Here is the result:\n" \o Fence \o "json\n" \o JsonGood \o "\n" \o Fence,
     " " \o Fence \o "json\n" \o JsonGood \o "\n" \o Fence}

\* json.loads on the texts above: tag "object" with the members, "array", or
\* "error" (JSONDecodeError) for every text that is not one JSON document
JsonLoads(text) ==
    CASE text = JsonGood ->
            [tag |-> "object",
             data |-> [issue_type |-> Str("Streetlight issue"), location |-> Str("Laxmi Nagar"),
                       responsible_department |-> Str("MCD Electrical"),
                       priority |-> Str("high"), confidence |-> Num(92),
                       summary |-> Str("Streetlight broken")]]
      [] text = JsonUnsure ->
            [tag |-> "object",
             data |-> [issue_type |-> Str("Noise"), location |-> Str("Not specified"),
                       responsible_department |-> Str("Delhi Police"),
                       priority |-> Str("low"), confidence |-> Num(30),
                       summary |-> Str("Loud music")]]
      [] text = JsonHalfSure ->
            [tag |-> "object",
             data |-> [responsible_department |-> Str("PWD"), priority |-> Str("medium"),
                       confidence |-> Num(50)]]
      [] text = JsonUnknownDepartment ->
            [tag |-> "object",
             data |-> [issue_type |-> Str("Stray dogs"), location |-> Str("Saket"),
                       responsible_department |-> Str("Municipal Office"),
                       priority |-> Str("medium"), confidence |-> Str("0.9"),
                       summary |-> Str("Stray dogs")]]
      [] text = JsonBadPriority ->
            [tag |-> "object",
             data |-> [responsible_department |-> Str("PWD"), priority |-> Str("urgent"),
                       confidence |-> Num(90)]]
      [] text = JsonOverConfident ->
            [tag |-> "object",
             data |-> [responsible_department |-> Str("PWD"), priority |-> Str("high"),
                       confidence |-> Num(150)]]
      [] text = JsonNegativeConfidence ->
            [tag |-> "object",
             data |-> [responsible_department |-> Str("PWD"), priority |-> Str("high"),
                       confidence |-> Num(-10)]]
      [] text = JsonWordConfidence ->
            [tag |-> "object",
             data |-> [responsible_department |-> Str("PWD"), priority |-> Str("high"),
                       confidence |-> Str("high")]]
      [] text = JsonNullConfidence ->
            [tag |-> "object",
             data |-> [responsible_department |-> Str("PWD"), priority |-> Str("high"),
                       confidence |-> Null]]
      [] text = JsonNullIssue ->
            [tag |-> "object",
             data |-> [issue_type |-> Null, responsible_department |-> Str("PWD"),
                       priority |-> Str("high")]]
      [] text = "{}" -> [tag |-> "object", data |-> <<>>]
      [] text = "[]" -> [tag |-> "array", data |-> <<>>]
      [] OTHER -> [tag |-> "error", data |-> <<>>]

RECURSIVE LStrip(_)
LStrip(text) ==
    IF Len(text) > 0 /\ IsSpace(CharAt(text, 1)) THEN LStrip(SubSeq(text, 2, Len(text)))
    ELSE text

RECURSIVE RStrip(_)
RStrip(text) ==
    IF Len(text) > 0 /\ IsSpace(CharAt(text, Len(text)))
    THEN RStrip(SubSeq(text, 1, Len(text) - 1))
    ELSE text

EndsWith(text, suffix) ==
    /\ Len(suffix) <= Len(text)
    /\ SubSeq(text, Len(text) - Len(suffix) + 1, Len(text)) = suffix

\* re.sub of an opening fence at the start of the text and the white space after it
DropOpeningFence(text, fence) ==
    IF StartsAt(text, 1, fence) THEN LStrip(SubSeq(text, Len(fence) + 1, Len(text)))
    ELSE text

\* re.sub of the closing fence and the white space before it: $ is the end of
\* the text or the place before a newline that ends it
DropClosingFence(text) ==
    IF EndsWith(text, Fence \o "\n") THEN RStrip(SubSeq(text, 1, Len(text) - 4)) \o "\n"
    ELSE IF EndsWith(text, Fence) THEN RStrip(SubSeq(text, 1, Len(text) - 3))
    ELSE text

\* the response parsed as it arrives, no fence removed
clean_json_response_Kept(text) == text

\* the opening fence with its language tag, the bare opening fence, the closing
\* fence, then strip()
clean_json_response(text) ==
    LStrip(RStrip(DropClosingFence(
        DropOpeningFence(DropOpeningFence(text, Fence \o "json"), Fence))))

\* data.get(key, default)
Get(data, key, default) == IF key \in DOMAIN data THEN data[key] ELSE default

\* float() of the strings the answers above carry; 0 stands for ValueError
FloatOfString(s) == IF s = "0.9" THEN 90 ELSE 0

\* the result of a call that may return a value, return None or raise
Returned(result) == [tag |-> "result", result |-> result]

NoExtraction ==
    [issue_type |-> NoneVal, location |-> NoneVal, responsible_department |-> NoneVal,
     priority |-> NoneVal, confidence |-> 0, summary |-> NoneVal]

ReturnedNone == [tag |-> "none", result |-> NoExtraction]

Raised == [tag |-> "raise", result |-> NoExtraction]

\* confidence: float = Field(default=0.8, ge=0.0, le=1.0), the bounds not validated
ConfidenceInRange_Unchecked(c) == TRUE

\* confidence: float = Field(default=0.8, ge=0.0, le=1.0)
ConfidenceInRange(c) == c >= 0 /\ c <= 100

\* PriorityLevel(value) with every value let through
IsPriorityLevel_Any(v) == TRUE

\* PriorityLevel(value): ValueError unless the value is one of the enumeration's
IsPriorityLevel(v) == v.t = "str" /\ v.s \in PriorityLevel

\* confidence=float(data.get("confidence", 0.7)), in hundredths
DefaultConfidence == 70

\* json.loads and the AIExtractionResult constructor; JSONDecodeError and
\* ValueError (pydantic's ValidationError is one) give None, what else is raised
\* (AttributeError of a document that is no object, TypeError of float(None))
\* leaves the function
parse_llm_response(response_text) ==
    LET loaded == JsonLoads(clean_json_response(response_text))
        data == loaded.data
        issue_type == Get(data, "issue_type", Str("General Issue"))
        location == Get(data, "location", Str("Not specified"))
        department == Get(data, "responsible_department", Str("General Helpdesk"))
        priority == Get(data, "priority", Str("medium"))
        confidence == Get(data, "confidence", Num(DefaultConfidence))
        summary == Get(data, "summary", Str(""))
        number == IF confidence.t = "num" THEN confidence.n ELSE FloatOfString(confidence.s)
    IN  IF loaded.tag = "error" THEN ReturnedNone
        ELSE IF loaded.tag = "array" THEN Raised
        ELSE IF ~IsPriorityLevel(priority) THEN ReturnedNone
        ELSE IF confidence.t = "null" THEN Raised
        ELSE IF confidence.t = "str" /\ FloatOfString(confidence.s) = 0 THEN ReturnedNone
        ELSE IF \/ issue_type.t # "str" \/ location.t # "str" \/ department.t # "str"
                \/ summary.t # "str" \/ ~ConfidenceInRange(number)
        THEN ReturnedNone
        ELSE Returned([issue_type |-> issue_type.s, location |-> location.s,
                       responsible_department |-> department.s, priority |-> priority.s,
                       confidence |-> number, summary |-> summary.s])

\* LLM_PROVIDER: the two model backends, and a value that names neither
Providers == {"ollama", "openai", "rules"}

ModelProviders == {"ollama", "openai"}

\* what the one POST of a call comes back with: no connection, no answer within
\* the client's 30 seconds, a status raise_for_status() refuses, a body that is
\* not JSON, a JSON body without the content member, or a content
Replies ==
    {[kind |-> k, content |-> ""] :
        k \in {"connect_error", "timeout", "http_error", "not_json", "no_content"}}
    \cup {[kind |-> "content", content |-> c] : c \in Contents}

\* _process_with_ollama / _process_with_openai from the reply on: what post(),
\* raise_for_status() and response.json() raise leaves the function; without the
\* content member Ollama's data.get(...).get("content", "") is "" and OpenAI's
\* data["choices"] raises KeyError
process_with(provider, reply) ==
    IF reply.kind \in {"connect_error", "timeout", "http_error", "not_json"} THEN Raised
    ELSE IF reply.kind = "no_content"
    THEN IF provider = "ollama" THEN parse_llm_response("") ELSE Raised
    ELSE parse_llm_response(reply.content)

\* the except clause of process_complaint catching nothing
Outcome_Uncaught(attempt, text) ==
    IF attempt.tag = "result" THEN [source |-> "model", result |-> attempt.result]
    ELSE IF attempt.tag = "raise" THEN [source |-> "error", result |-> NoExtraction]
    ELSE [source |-> "fallback", result |-> fallback_extraction(text)]

\* process_complaint after the backend's attempt: `if result: return result`,
\* `except Exception`, then the fallback
Outcome(attempt, text) ==
    IF attempt.tag = "result" THEN [source |-> "model", result |-> attempt.result]
    ELSE [source |-> "fallback", result |-> fallback_extraction(text)]

(***************************************************************************)
(* Inputs.  A registration request carries the text and the reporter; the  *)
(* extractor answers with some AIExtractionResult for it.                  *)
(***************************************************************************)
Submissions ==
    { [request |-> [text |-> "Streetlight near Laxmi Nagar metro gate broken for 3 days",
                    telegram_user_id |-> "7001", user_name |-> "Asha"],
       ai |-> [issue_type |-> "Streetlight issue", location |-> "Laxmi Nagar metro gate",
               responsible_department |-> "MCD Electrical", priority |-> "medium",
               summary |-> "Streetlight broken"]],
      [request |-> [text |-> "Garbage dumped on the road is a hazard",
                    telegram_user_id |-> NoneVal, user_name |-> NoneVal],
       ai |-> [issue_type |-> "General complaint", location |-> "Location not specified",
               responsible_department |-> "Municipal Office", priority |-> "high",
               summary |-> "Garbage on road"]] }

\* department names an extraction may carry that the configuration does not have
UnknownDepartments == {"Municipal Office", "mcd electrical", ""}

\* the extraction results the router is called with
Classifications ==
    {[issue_type |-> "Streetlight issue", location |-> "Laxmi Nagar metro gate",
      responsible_department |-> d, priority |-> pr, summary |-> "Streetlight broken"] :
        d \in DOMAIN DEPARTMENTS \cup UnknownDepartments, pr \in PriorityLevel}

NotesValues == {"on site"}

ChangedByValues == {"Admin"}

\* the target statuses requested while several handlers run at once
Targets == {"submitted", "assigned", "resolved"}

(***************************************************************************)
(* Clock.  SQLite's CURRENT_TIMESTAMP is the wall clock cut to whole       *)
(* seconds, and one tick of `clock` is one second: two statements run      *)
(* without a tick between them get the same CURRENT_TIMESTAMP.             *)
(* datetime.now() is read at the same granularity.                         *)
(***************************************************************************)
DatetimeNow == clock

CurrentTimestamp == clock

(***************************************************************************)
(* Reference ids: f"SF-{next_id:04d}"                                      *)
(***************************************************************************)
Digit(d) ==
    CASE d = 0 -> "0" [] d = 1 -> "1" [] d = 2 -> "2" [] d = 3 -> "3" [] d = 4 -> "4"
      [] d = 5 -> "5" [] d = 6 -> "6" [] d = 7 -> "7" [] d = 8 -> "8" [] OTHER -> "9"

RECURSIVE Decimal(_, _)
\* n in decimal, zero-padded to at least `width` digits
Decimal(n, width) ==
    IF n < 10 /\ width <= 1 THEN Digit(n)
    ELSE Decimal(n \div 10, width - 1) \o Digit(n % 10)

FormatComplaintId(next_id) == "SF-" \o Decimal(next_id, 4)

\* the number a reference id was formatted from
NumberOf(cid) ==
    CHOOSE n \in (1..(MaxComplaints + 1)) \cup {9999} : FormatComplaintId(n) = cid

\* the ids callers ask about: the ones the sequence can hand out, and one never handed out
KnownIds == {FormatComplaintId(n) : n \in 1..MaxComplaints} \cup {"SF-9999"}

(***************************************************************************)
(* Table helpers                                                           *)
(***************************************************************************)
RowsOf(table, cid) == {i \in DOMAIN table : table[i].complaint_id = cid}

\* SELECT MAX(id) FROM a table, with `or 0` for the NULL of an empty table
MaxIdOrZero(table) ==
    IF table = <<>> THEN 0
    ELSE CHOOSE m \in {table[i].id : i \in DOMAIN table} :
            \A i \in DOMAIN table : table[i].id <= m

\* a row id counter that leaves one number out at every insertion
NextRowId_Skips(table) == MaxIdOrZero(table) + 2

\* the rowid AUTOINCREMENT gives the next row of a table that never loses rows
NextRowId(table) == MaxIdOrZero(table) + 1

NoRequest == [text |-> NoneVal, telegram_user_id |-> NoneVal, user_name |-> NoneVal]

NoResult == [issue_type |-> NoneVal, location |-> NoneVal, responsible_department |-> NoneVal,
             priority |-> NoneVal, summary |-> NoneVal]

Idle == [pc |-> "idle", op |-> "none", complaint_id |-> NoneVal, new_status |-> NoneVal,
         old_status |-> NoneVal, notes |-> NoneVal, changed_by |-> NoneVal,
         request |-> NoRequest, ai |-> NoResult, args |-> <<>>, acc |-> <<>>]

NoResponse == [op |-> "none", complaint_id |-> NoneVal, outcome |-> "none", entries |-> <<>>,
               total |-> 0]

\* the answer of a registration or status update: what was asked and how it ended
Answer(call, outcome) ==
    [NoResponse EXCEPT !.op = call.op, !.complaint_id = call.complaint_id, !.outcome = outcome]

\* handlers that have begun a registration or status update and not yet finished it
InFlight(op) == {p \in Procs : proc[p].op = op}

\* the audit entries stored and those the calls in flight will add are fewer than n
HistoryRoom(n) ==
    Len(status_history) + Cardinality(InFlight("register") \cup InFlight("transition")) < n

Init ==
    /\ complaints = <<>>
    /\ status_history = <<>>
    /\ wowner = 0
    /\ wcomplaints = <<>>
    /\ whistory = <<>>
    /\ clock = 0
    /\ proc = [p \in Procs |-> Idle]
    /\ response = NoResponse

\* a second passes; time is followed as long as a write can still come
Tick ==
    /\ clock < MaxClock
    /\ Len(status_history) < MaxHistory
    /\ clock' = clock + 1
    /\ response' = NoResponse
    /\ UNCHANGED <<complaints, status_history, wowner, wcomplaints, whistory, proc>>

(***************************************************************************)
(* Transactions of the writing connection                                  *)
(***************************************************************************)
\* a commit issued before the audit entry was written, the entry lost with the connection
CommitHistory_Missed(committed, written) == committed

\* what `await db.commit()` publishes of the writer's tables
CommitComplaints(committed, written) == written

CommitHistory(committed, written) == written

Begin(p) ==
    /\ wowner = 0
    /\ wowner' = p

Commit ==
    /\ complaints' = CommitComplaints(complaints, wcomplaints)
    /\ status_history' = CommitHistory(status_history, whistory)
    /\ wowner' = 0
    /\ wcomplaints' = <<>>
    /\ whistory' = <<>>

(***************************************************************************)
(* register: submit_complaint / handle_complaint, get_next_complaint_id,   *)
(* create_complaint                                                        *)
(***************************************************************************)
\* SELECT MAX(id) ... ; next_id = (row[0] or 0) + 1
get_next_complaint_id == FormatComplaintId(MaxIdOrZero(complaints) + 1)

\* process_complaint, route_complaint, then the id is read from the committed table.
\* After create_complaint has committed, the handlers read the record back
\* (get_complaint_by_id) to build their answer; that read changes nothing.
SubmitComplaint(p, request, ai) ==
    /\ proc[p].pc = "idle"
    /\ Len(complaints) + Cardinality(InFlight("register")) < MaxComplaints
    /\ proc' = [proc EXCEPT ![p] = [Idle EXCEPT !.pc = "create_insert", !.op = "register",
                                        !.request = request, !.ai = ai,
                                        !.complaint_id = get_next_complaint_id]]
    /\ UNCHANGED <<complaints, status_history, wowner, wcomplaints, whistory, clock>>
    /\ response' = NoResponse

\* the schema without the UNIQUE constraint on complaint_id
UniqueViolation_Dropped(table, cid) == FALSE

\* complaint_id TEXT UNIQUE NOT NULL
UniqueViolation(table, cid) == RowsOf(table, cid) # {}

\* a record inserted already assigned
ComplaintRow_Assigned(table, cid, request, ai, now) ==
    LET routed == route_complaint(ai)
    IN  [id |-> NextRowId(table), complaint_id |-> cid,
         telegram_user_id |-> request.telegram_user_id, user_name |-> request.user_name,
         raw_text |-> request.text, issue_type |-> ai.issue_type, location |-> ai.location,
         department |-> routed[1], priority |-> ai.priority, status |-> "assigned",
         summary |-> ai.summary, estimated_resolution_hours |-> routed[2],
         created_at |-> now, updated_at |-> now]

\* a record stored with the base hours of its department, whatever its priority
ComplaintRow_BaseHours(table, cid, request, ai, now) ==
    LET routed == route_complaint(ai)
    IN  [id |-> NextRowId(table), complaint_id |-> cid,
         telegram_user_id |-> request.telegram_user_id, user_name |-> request.user_name,
         raw_text |-> request.text, issue_type |-> ai.issue_type, location |-> ai.location,
         department |-> routed[1], priority |-> ai.priority, status |-> "submitted",
         summary |-> ai.summary,
         estimated_resolution_hours |-> DEPARTMENTS[routed[1]].sla_hours,
         created_at |-> now, updated_at |-> now]

\* INSERT INTO complaints (..., 'submitted', ...)
ComplaintRow(table, cid, request, ai, now) ==
    LET routed == route_complaint(ai)
    IN  [id |-> NextRowId(table), complaint_id |-> cid,
         telegram_user_id |-> request.telegram_user_id, user_name |-> request.user_name,
         raw_text |-> request.text, issue_type |-> ai.issue_type, location |-> ai.location,
         department |-> routed[1], priority |-> ai.priority, status |-> "submitted",
         summary |-> ai.summary, estimated_resolution_hours |-> routed[2],
         created_at |-> now, updated_at |-> now]

HistoryRow(table, cid, old_status, new_status, notes, changed_by) ==
    [id |-> NextRowId(table), complaint_id |-> cid, old_status |-> old_status,
     new_status |-> new_status, changed_at |-> CurrentTimestamp,
     notes |-> notes, changed_by |-> changed_by]

\* the first audit entry written without the sentinel
InitialHistoryRow_Unmarked(table, cid) ==
    HistoryRow(table, cid, "submitted", "submitted", "Complaint registered", NoneVal)

\* the first audit entry create_complaint writes
InitialHistoryRow(table, cid) ==
    HistoryRow(table, cid, "new", "submitted", "Complaint registered", NoneVal)

\* INSERT INTO complaints: opens the write transaction; a duplicate complaint_id
\* raises IntegrityError, the connection closes and nothing is written
CreateInsertComplaint(p) ==
    /\ proc[p].pc = "create_insert"
    /\ wowner = 0
    /\ IF UniqueViolation(complaints, proc[p].complaint_id)
       THEN /\ proc' = [proc EXCEPT ![p] = Idle]
            /\ response' = Answer(proc[p], "StorageFault")
            /\ UNCHANGED <<wowner, wcomplaints, whistory>>
       ELSE /\ Begin(p)
            /\ wcomplaints' = Append(complaints, ComplaintRow(complaints, proc[p].complaint_id,
                                         proc[p].request, proc[p].ai, DatetimeNow))
            /\ whistory' = status_history
            /\ proc' = [proc EXCEPT ![p].pc = "create_history"]
            /\ response' = NoResponse
    /\ UNCHANGED <<complaints, status_history, clock>>

\* INSERT INTO status_history (new -> submitted)
CreateInsertHistory(p) ==
    /\ proc[p].pc = "create_history"
    /\ wowner = p
    /\ whistory' = Append(whistory, InitialHistoryRow(whistory, proc[p].complaint_id))
    /\ proc' = [proc EXCEPT ![p].pc = "create_commit"]
    /\ UNCHANGED <<complaints, status_history, wowner, wcomplaints, clock>>
    /\ response' = NoResponse

CreateCommit(p) ==
    /\ proc[p].pc = "create_commit"
    /\ wowner = p
    /\ Commit
    /\ proc' = [proc EXCEPT ![p] = Idle]
    /\ response' = Answer(proc[p], "ok")
    /\ UNCHANGED clock

(***************************************************************************)
(* transition: admin update_complaint_status, database.update_complaint_status *)
(***************************************************************************)
\* the admin handler: get_complaint_by_id, 404 when there is no record;
\* old_status = complaint.status.value, which the handler returns in its
\* response after the store's call, is kept in args
AdminUpdateStatus(p, cid, new_status, notes) ==
    /\ proc[p].pc = "idle"
    /\ LET call == [Idle EXCEPT !.pc = "update_select", !.op = "transition", !.complaint_id = cid,
                                 !.new_status = new_status, !.notes = notes, !.changed_by = "Admin"]
           rows == RowsOf(complaints, cid)
       IN  IF rows = {}
           THEN /\ proc' = proc
                /\ response' = Answer(call, "NotFound")
           ELSE /\ proc' = [proc EXCEPT ![p] =
                               [call EXCEPT !.args = <<complaints[CHOOSE i \in rows : TRUE].status>>]]
                /\ response' = NoResponse
    /\ UNCHANGED <<complaints, status_history, wowner, wcomplaints, whistory, clock>>

\* a caller of database.update_complaint_status other than the admin handler
CallUpdateComplaintStatus(p, cid, new_status, notes, changed_by) ==
    /\ proc[p].pc = "idle"
    /\ proc' = [proc EXCEPT ![p] = [Idle EXCEPT !.pc = "update_select", !.op = "transition",
                                        !.complaint_id = cid, !.new_status = new_status,
                                        !.notes = notes, !.changed_by = changed_by]]
    /\ UNCHANGED <<complaints, status_history, wowner, wcomplaints, whistory, clock>>
    /\ response' = NoResponse

\* the SELECT without the `if not row: return None` guard
UpdateSelect_NoCheck(p) ==
    /\ proc[p].pc = "update_select"
    /\ LET rows == RowsOf(complaints, proc[p].complaint_id)
       IN  proc' = [proc EXCEPT ![p].pc = "update_update",
                                ![p].old_status = IF rows = {} THEN "submitted"
                                                  ELSE complaints[CHOOSE i \in rows : TRUE].status]
    /\ response' = NoResponse
    /\ UNCHANGED <<complaints, status_history, wowner, wcomplaints, whistory, clock>>

\* SELECT status FROM complaints WHERE complaint_id = ?; None when there is no row
UpdateSelect(p) ==
    /\ proc[p].pc = "update_select"
    /\ LET rows == RowsOf(complaints, proc[p].complaint_id)
       IN  IF rows = {}
           THEN /\ proc' = [proc EXCEPT ![p] = Idle]
                /\ response' = Answer(proc[p], "NotFound")
           ELSE /\ proc' = [proc EXCEPT ![p].pc = "update_update",
                                        ![p].old_status = complaints[CHOOSE i \in rows : TRUE].status]
                /\ response' = NoResponse
    /\ UNCHANGED <<complaints, status_history, wowner, wcomplaints, whistory, clock>>

\* an UPDATE that leaves resolved and closed records as they are
SetStatus_NoReopen(table, cid, new_status, now) ==
    [i \in DOMAIN table |->
        IF table[i].complaint_id = cid /\ table[i].status \notin {"resolved", "closed"}
        THEN [table[i] EXCEPT !.status = new_status, !.updated_at = now]
        ELSE table[i]]

\* an UPDATE keyed on the status the record has instead of on its reference id
SetStatus_ByStatus(table, cid, new_status, now) ==
    [i \in DOMAIN table |->
        IF \E k \in RowsOf(table, cid) : table[i].status = table[k].status
        THEN [table[i] EXCEPT !.status = new_status, !.updated_at = now]
        ELSE table[i]]

\* an UPDATE that also rewrites the reference id of the record
SetStatus_Renames(table, cid, new_status, now) ==
    [i \in DOMAIN table |->
        IF table[i].complaint_id = cid
        THEN [table[i] EXCEPT !.status = new_status, !.updated_at = now, !.complaint_id = "SF-9999"]
        ELSE table[i]]

\* an UPDATE without its WHERE clause
SetStatus_AllRows(table, cid, new_status, now) ==
    [i \in DOMAIN table |-> [table[i] EXCEPT !.status = new_status, !.updated_at = now]]

\* UPDATE complaints SET status = ?, updated_at = ? WHERE complaint_id = ?
SetStatus(table, cid, new_status, now) ==
    [i \in DOMAIN table |->
        IF table[i].complaint_id = cid
        THEN [table[i] EXCEPT !.status = new_status, !.updated_at = now]
        ELSE table[i]]

UpdateUpdate(p) ==
    /\ proc[p].pc = "update_update"
    /\ Begin(p)
    /\ wcomplaints' = SetStatus(complaints, proc[p].complaint_id, proc[p].new_status, DatetimeNow)
    /\ whistory' = status_history
    /\ proc' = [proc EXCEPT ![p].pc = "update_history"]
    /\ UNCHANGED <<complaints, status_history, clock>>
    /\ response' = NoResponse

\* the status change recorded by rewriting the newest audit entry instead of inserting one
UpdateInsertHistory_Overwrites(p) ==
    /\ proc[p].pc = "update_history"
    /\ wowner = p
    /\ whistory' = [whistory EXCEPT ![Len(whistory)] =
                       [@ EXCEPT !.complaint_id = proc[p].complaint_id,
                                 !.old_status = proc[p].old_status,
                                 !.new_status = proc[p].new_status]]
    /\ proc' = [proc EXCEPT ![p].pc = "update_commit"]
    /\ UNCHANGED <<complaints, status_history, wowner, wcomplaints, clock>>
    /\ response' = NoResponse

\* the audit INSERT executed twice for one status change
UpdateInsertHistory_Twice(p) ==
    /\ proc[p].pc = "update_history"
    /\ wowner = p
    /\ LET row == HistoryRow(whistory, proc[p].complaint_id, proc[p].old_status,
                              proc[p].new_status, proc[p].notes, proc[p].changed_by)
       IN  whistory' = Append(Append(whistory, row), [row EXCEPT !.id = row.id + 1])
    /\ proc' = [proc EXCEPT ![p].pc = "update_commit"]
    /\ UNCHANGED <<complaints, status_history, wowner, wcomplaints, clock>>
    /\ response' = NoResponse

\* INSERT INTO status_history (old_status read by the SELECT, new_status)
UpdateInsertHistory(p) ==
    /\ proc[p].pc = "update_history"
    /\ wowner = p
    /\ whistory' = Append(whistory, HistoryRow(whistory, proc[p].complaint_id, proc[p].old_status,
                                               proc[p].new_status, proc[p].notes, proc[p].changed_by))
    /\ proc' = [proc EXCEPT ![p].pc = "update_commit"]
    /\ UNCHANGED <<complaints, status_history, wowner, wcomplaints, clock>>
    /\ response' = NoResponse

UpdateCommit(p) ==
    /\ proc[p].pc = "update_commit"
    /\ wowner = p
    /\ Commit
    /\ proc' = [proc EXCEPT ![p] = Idle]
    /\ response' = Answer(proc[p], "ok")
    /\ UNCHANGED clock

(***************************************************************************)
(* history: get_status_history                                             *)
(***************************************************************************)
\* ComplaintStatus(row["old_status"]) if row["old_status"] != "new" else SUBMITTED
StatusHistoryEntry(row) ==
    [row EXCEPT !.old_status = IF row.old_status # "new" THEN row.old_status ELSE "submitted"]

\* ORDER BY changed_at ASC: every order of the rows in which changed_at never
\* decreases; SQL leaves the order of rows with equal changed_at open
OrderedByChangedAt(table, rows) ==
    {f \in [1..Cardinality(rows) -> rows] :
        /\ \A i, j \in DOMAIN f : i # j => f[i] # f[j]
        /\ \A i, j \in DOMAIN f : i < j => table[f[i]].changed_at <= table[f[j]].changed_at}

\* the SELECT without its WHERE clause: the audit rows of every record
HistoryResults_AllRows(cid) ==
    {[i \in DOMAIN f |-> StatusHistoryEntry(status_history[f[i]])] :
        f \in OrderedByChangedAt(status_history, DOMAIN status_history)}

\* SELECT * FROM status_history WHERE complaint_id = ? ORDER BY changed_at ASC
HistoryResults(cid) ==
    {[i \in DOMAIN f |-> StatusHistoryEntry(status_history[f[i]])] :
        f \in OrderedByChangedAt(status_history, RowsOf(status_history, cid))}

GetStatusHistory(cid) ==
    /\ \E h \in HistoryResults(cid) :
           response' = [NoResponse EXCEPT !.op = "history", !.complaint_id = cid,
                                          !.outcome = "ok", !.entries = h]
    /\ UNCHANGED <<complaints, status_history, wowner, wcomplaints, whistory, clock, proc>>

(***************************************************************************)
(* get: get_complaint_by_id                                                *)
(***************************************************************************)
\* _row_to_complaint: the row as a Complaint, summary=row["summary"] or ""
row_to_complaint(row) ==
    [row EXCEPT !.summary = IF row.summary = NoneVal THEN "" ELSE row.summary]

\* SELECT * FROM complaints WHERE complaint_id = ?; None when there is no row
GetComplaintById(cid) ==
    /\ LET rows == RowsOf(complaints, cid)
       IN  response' =
               IF rows = {}
               THEN [NoResponse EXCEPT !.op = "get", !.complaint_id = cid, !.outcome = "NotFound"]
               ELSE [NoResponse EXCEPT !.op = "get", !.complaint_id = cid, !.outcome = "ok",
                         !.entries = <<row_to_complaint(complaints[CHOOSE i \in rows : TRUE])>>]
    /\ UNCHANGED <<complaints, status_history, wowner, wcomplaints, whistory, clock, proc>>

(***************************************************************************)
(* list: get_all_complaints                                                *)
(***************************************************************************)
\* the filters and pages callers ask for
StatusFilters == {NoneVal, "submitted", "resolved"}

DepartmentFilters == {NoneVal, "MCD Electrical"}

PriorityFilters == {NoneVal, "high"}

Pages == 1..2

PerPages == 1..2

\* `if status:` and the like: None adds no condition to the WHERE clause
Truthy(v) == v # NoneVal /\ v # ""

Matching(table, status, department, priority) ==
    {i \in DOMAIN table :
        /\ Truthy(status) => table[i].status = status
        /\ Truthy(department) => table[i].department = department
        /\ Truthy(priority) => table[i].priority = priority}

\* ORDER BY created_at DESC: every order of the rows in which created_at never
\* increases; SQL leaves the order of rows with equal created_at open
OrderedByCreatedAtDesc(table, rows) ==
    {f \in [1..Cardinality(rows) -> rows] :
        /\ \A i, j \in DOMAIN f : i # j => f[i] # f[j]
        /\ \A i, j \in DOMAIN f : i < j => table[f[i]].created_at >= table[f[j]].created_at}

\* LIMIT ? OFFSET ?
LimitOffset(f, limit, offset) ==
    SubSeq(f, offset + 1, IF offset + limit <= Len(f) THEN offset + limit ELSE Len(f))

\* SELECT COUNT(*) FROM complaints WHERE ...
ListCount(p, status, department, priority, page, per_page) ==
    /\ proc[p].pc = "idle"
    /\ proc' = [proc EXCEPT ![p] =
                   [Idle EXCEPT !.pc = "list_rows", !.op = "list",
                                !.args = <<status, department, priority, page, per_page>>,
                                !.acc = <<Cardinality(Matching(complaints, status, department,
                                                               priority))>>]]
    /\ response' = NoResponse
    /\ UNCHANGED <<complaints, status_history, wowner, wcomplaints, whistory, clock>>

\* the rows in the order SQLite returns them for ORDER BY created_at DESC: it
\* sorts what it scans in rowid order and keeps rows of equal created_at in that
\* order (SQLite 3.40.1 with the tables and indexes of init_db, every filter)
ListOrder(table, rows) ==
    CHOOSE f \in OrderedByCreatedAtDesc(table, rows) :
        \A i, j \in DOMAIN f :
            i < j /\ table[f[i]].created_at = table[f[j]].created_at
                => table[f[i]].id < table[f[j]].id

\* the rows of one page: ... WHERE ... ORDER BY created_at DESC LIMIT per_page
\* OFFSET (page - 1) * per_page
PageRows(table, status, department, priority, page, per_page) ==
    LimitOffset(ListOrder(table, Matching(table, status, department, priority)),
                per_page, (page - 1) * per_page)

\* SELECT * FROM complaints WHERE ... ORDER BY created_at DESC LIMIT ? OFFSET ?
ListRows(p) ==
    /\ proc[p].pc = "list_rows"
    /\ LET a == proc[p].args
           rows == PageRows(complaints, a[1], a[2], a[3], a[4], a[5])
       IN  response' =
               [NoResponse EXCEPT
                   !.op = "list", !.outcome = "ok", !.total = proc[p].acc[1],
                   !.entries = [i \in DOMAIN rows |-> row_to_complaint(complaints[rows[i]])]]
    /\ proc' = [proc EXCEPT ![p] = Idle]
    /\ UNCHANGED <<complaints, status_history, wowner, wcomplaints, whistory, clock>>

(***************************************************************************)
(* stats: get_dashboard_stats, four queries on one connection              *)
(***************************************************************************)
\* SELECT <column>, COUNT(*) FROM complaints GROUP BY <column>, as a dict
GroupCount(table, column) ==
    [v \in {table[i][column] : i \in DOMAIN table} |->
        Cardinality({i \in DOMAIN table : table[i][column] = v})]

\* dict.get(key, 0)
GetOrZero(d, key) == IF key \in DOMAIN d THEN d[key] ELSE 0

\* SELECT COUNT(*) FROM complaints
StatsTotal(p) ==
    /\ proc[p].pc = "idle"
    /\ proc' = [proc EXCEPT ![p] = [Idle EXCEPT !.pc = "stats_status", !.op = "stats",
                                                !.acc = <<Len(complaints)>>]]
    /\ response' = NoResponse
    /\ UNCHANGED <<complaints, status_history, wowner, wcomplaints, whistory, clock>>

StatsByStatus(p) ==
    /\ proc[p].pc = "stats_status"
    /\ proc' = [proc EXCEPT ![p].pc = "stats_department",
                            ![p].acc = Append(@, GroupCount(complaints, "status"))]
    /\ response' = NoResponse
    /\ UNCHANGED <<complaints, status_history, wowner, wcomplaints, whistory, clock>>

StatsByDepartment(p) ==
    /\ proc[p].pc = "stats_department"
    /\ proc' = [proc EXCEPT ![p].pc = "stats_priority",
                            ![p].acc = Append(@, GroupCount(complaints, "department"))]
    /\ response' = NoResponse
    /\ UNCHANGED <<complaints, status_history, wowner, wcomplaints, whistory, clock>>

DashboardStats(total, status_counts, by_department, by_priority) ==
    [total_complaints |-> total,
     pending |-> GetOrZero(status_counts, "submitted") + GetOrZero(status_counts, "assigned"),
     in_progress |-> GetOrZero(status_counts, "in_progress"),
     resolved |-> GetOrZero(status_counts, "resolved") + GetOrZero(status_counts, "closed"),
     escalated |-> GetOrZero(status_counts, "escalated"),
     by_department |-> by_department,
     by_priority |-> by_priority]

StatsByPriority(p) ==
    /\ proc[p].pc = "stats_priority"
    /\ response' = [NoResponse EXCEPT
                       !.op = "stats", !.outcome = "ok",
                       !.entries = <<DashboardStats(proc[p].acc[1], proc[p].acc[2], proc[p].acc[3],
                                                    GroupCount(complaints, "priority"))>>]
    /\ proc' = [proc EXCEPT ![p] = Idle]
    /\ UNCHANGED <<complaints, status_history, wowner, wcomplaints, whistory, clock>>

(***************************************************************************)
(* route: route_complaint called on its own                                *)
(***************************************************************************)
\* a router that also writes its decision into the newest stored record
RouteComplaint_Reassigns(ai) ==
    /\ LET routed == route_complaint(ai)
       IN  /\ response' = [NoResponse EXCEPT
                              !.op = "route", !.outcome = "ok",
                              !.entries = <<[ai |-> ai, department |-> routed[1],
                                             sla_hours |-> routed[2]]>>]
           /\ complaints' = IF complaints = <<>> THEN complaints
                            ELSE [complaints EXCEPT ![Len(complaints)].department = routed[1]]
    /\ UNCHANGED <<status_history, wowner, wcomplaints, whistory, clock, proc>>

\* department, sla_hours = route_complaint(ai_result)
RouteComplaint(ai) ==
    /\ LET routed == route_complaint(ai)
       IN  response' = [NoResponse EXCEPT
                          !.op = "route", !.outcome = "ok",
                          !.entries = <<[ai |-> ai, department |-> routed[1],
                                         sla_hours |-> routed[2]]>>]
    /\ UNCHANGED <<complaints, status_history, wowner, wcomplaints, whistory, clock, proc>>

(***************************************************************************)
(* classify: process_complaint, called on its own or by a registration.    *)
(* The call awaits the one POST to the backend LLM_PROVIDER names; acc     *)
(* lists the backends the call has posted to.                              *)
(***************************************************************************)
NoReply == [kind |-> "none", content |-> ""]

\* what process_complaint returns, with what it was called with and what it did
ClassifyAnswer(text, provider, reply, called, out) ==
    [NoResponse EXCEPT
        !.op = "classify", !.outcome = out.source,
        !.entries = <<[text |-> text, provider |-> provider, reply |-> reply,
                       called |-> called, result |-> out.result]>>]

\* process_complaint(text) up to `await self.client.post(...)`; with a provider
\* that names no backend, to its return
ProcessComplaint(p, text, provider) ==
    /\ proc[p].pc = "idle"
    /\ IF provider \in ModelProviders
       THEN /\ proc' = [proc EXCEPT ![p] =
                           [Idle EXCEPT !.pc = "llm_post", !.op = "classify",
                                        !.request = [NoRequest EXCEPT !.text = text],
                                        !.args = <<provider>>, !.acc = <<provider>>]]
            /\ response' = NoResponse
       ELSE /\ proc' = [proc EXCEPT ![p] = Idle]
            /\ response' = ClassifyAnswer(text, provider, NoReply, <<>>,
                                          Outcome(ReturnedNone, text))
    /\ UNCHANGED <<complaints, status_history, wowner, wcomplaints, whistory, clock>>

\* submit_complaint / handle_complaint up to the POST of process_complaint; with
\* a provider that names no backend, to the return of process_complaint
SubmitRequest(p, request, provider) ==
    /\ proc[p].pc = "idle"
    /\ Len(complaints) + Cardinality(InFlight("register")) < MaxComplaints
    /\ IF provider \in ModelProviders
       THEN /\ proc' = [proc EXCEPT ![p] =
                           [Idle EXCEPT !.pc = "llm_post", !.op = "register",
                                        !.request = request,
                                        !.args = <<provider>>, !.acc = <<provider>>]]
            /\ response' = NoResponse
       ELSE /\ proc' = [proc EXCEPT ![p] =
                           [Idle EXCEPT !.pc = "classified", !.op = "register",
                                        !.request = request, !.args = <<provider>>,
                                        !.ai = Outcome(ReturnedNone, request.text).result]]
            /\ response' = ClassifyAnswer(request.text, provider, NoReply, <<>>,
                                          Outcome(ReturnedNone, request.text))
    /\ UNCHANGED <<complaints, status_history, wowner, wcomplaints, whistory, clock>>

\* a process_complaint that posts a second time when the first answer is of no use
BackendReply_Retries(p, reply) ==
    /\ proc[p].pc = "llm_post"
    /\ LET text == proc[p].request.text
           attempt == process_with(proc[p].args[1], reply)
           out == Outcome(attempt, text)
       IN  IF attempt.tag # "result" /\ Len(proc[p].acc) < 2
           THEN /\ proc' = [proc EXCEPT ![p].acc = Append(@, proc[p].args[1])]
                /\ response' = NoResponse
           ELSE /\ response' = ClassifyAnswer(text, proc[p].args[1], reply, proc[p].acc, out)
                /\ proc' = IF proc[p].op = "classify" THEN [proc EXCEPT ![p] = Idle]
                           ELSE [proc EXCEPT ![p].pc = "classified", ![p].ai = out.result]
    /\ UNCHANGED <<complaints, status_history, wowner, wcomplaints, whistory, clock>>

\* the POST comes back, or fails: the rest of process_complaint.  A
\* registration goes on with the result.
BackendReply(p, reply) ==
    /\ proc[p].pc = "llm_post"
    /\ LET text == proc[p].request.text
           out == Outcome(process_with(proc[p].args[1], reply), text)
       IN  /\ response' = ClassifyAnswer(text, proc[p].args[1], reply, proc[p].acc, out)
           /\ proc' = IF proc[p].op = "classify" THEN [proc EXCEPT ![p] = Idle]
                      ELSE [proc EXCEPT ![p].pc = "classified", ![p].ai = out.result]
    /\ UNCHANGED <<complaints, status_history, wowner, wcomplaints, whistory, clock>>

\* department, sla_hours = route_complaint(ai_result), then the id is read from
\* the committed table
RegisterClassified(p) ==
    /\ proc[p].pc = "classified"
    /\ proc' = [proc EXCEPT ![p] = [Idle EXCEPT !.pc = "create_insert", !.op = "register",
                                        !.request = proc[p].request, !.ai = proc[p].ai,
                                        !.complaint_id = get_next_complaint_id]]
    /\ UNCHANGED <<complaints, status_history, wowner, wcomplaints, whistory, clock>>
    /\ response' = NoResponse

(***************************************************************************)
(* A statement of create_complaint that the store refuses (the disk is     *)
(* full, the database is locked, the file cannot be written): aiosqlite    *)
(* raises, `async with aiosqlite.connect` closes the connection, which     *)
(* rolls its open transaction back, and the exception leaves               *)
(* create_complaint and the handler.                                       *)
(***************************************************************************)
\* a connection that commits what it has written when the exception closes it
CreateFault_Commits(p) ==
    /\ proc[p].pc \in {"create_insert", "create_history", "create_commit"}
    /\ IF wowner = p THEN Commit
       ELSE UNCHANGED <<complaints, status_history, wowner, wcomplaints, whistory>>
    /\ proc' = [proc EXCEPT ![p] = Idle]
    /\ response' = Answer(proc[p], "StorageFault")
    /\ UNCHANGED clock

CreateFault(p) ==
    /\ proc[p].pc \in {"create_insert", "create_history", "create_commit"}
    /\ IF wowner = p
       THEN /\ wowner' = 0
            /\ wcomplaints' = <<>>
            /\ whistory' = <<>>
       ELSE UNCHANGED <<wowner, wcomplaints, whistory>>
    /\ proc' = [proc EXCEPT ![p] = Idle]
    /\ response' = Answer(proc[p], "StorageFault")
    /\ UNCHANGED <<complaints, status_history, clock>>

(***************************************************************************)
(* Spec: the handlers of the application (registration, the admin status   *)
(* update) run concurrently; every step between two awaits of one handler  *)
(* may be followed by a step of the other.  The reading call               *)
(* get_status_history writes nothing; what it can return in a state is     *)
(* HistoryResults.                                                         *)
(***************************************************************************)
Next ==
    \/ Tick
    \/ /\ HistoryRoom(MaxHistory)
       /\ \E p \in Procs, in \in Submissions : SubmitComplaint(p, in.request, in.ai)
    \/ \E p \in Procs : CreateInsertComplaint(p)
    \/ \E p \in Procs : CreateInsertHistory(p)
    \/ \E p \in Procs : CreateCommit(p)
    \/ /\ HistoryRoom(MaxHistory)
       /\ \E p \in Procs, cid \in KnownIds, s \in Targets, n \in NotesValues :
              AdminUpdateStatus(p, cid, s, n)
    \/ \E p \in Procs : UpdateSelect(p)
    \/ \E p \in Procs : UpdateUpdate(p)
    \/ \E p \in Procs : UpdateInsertHistory(p)
    \/ \E p \in Procs : UpdateCommit(p)

Spec == Init /\ [][Next]_vars

(***************************************************************************)
(* SpecSeq: the operations of the store called one at a time (each call    *)
(* runs to its answer before the next begins), with every target status of *)
(* the enumeration, through the admin handler or directly.                 *)
(***************************************************************************)
Sequential == CHOOSE p \in Procs : \A q \in Procs : p <= q

NextSeq ==
    \/ Tick
    \/ /\ HistoryRoom(MaxHistory)
       /\ \E in \in Submissions : SubmitComplaint(Sequential, in.request, in.ai)
    \/ CreateInsertComplaint(Sequential)
    \/ CreateInsertHistory(Sequential)
    \/ CreateCommit(Sequential)
    \/ /\ HistoryRoom(MaxHistory)
       /\ \E cid \in KnownIds, s \in ComplaintStatus, n \in NotesValues :
              AdminUpdateStatus(Sequential, cid, s, n)
    \/ /\ HistoryRoom(MaxHistory)
       /\ \E cid \in KnownIds, s \in ComplaintStatus, n \in NotesValues :
              \E by \in ChangedByValues : CallUpdateComplaintStatus(Sequential, cid, s, n, by)
    \/ UpdateSelect(Sequential)
    \/ UpdateUpdate(Sequential)
    \/ UpdateInsertHistory(Sequential)
    \/ UpdateCommit(Sequential)

SpecSeq == Init /\ [][NextSeq]_vars

(***************************************************************************)
(* SpecHist: SpecSeq with the history calls.                               *)
(***************************************************************************)
NextHist ==
    \/ NextSeq
    \/ \E cid \in KnownIds : GetStatusHistory(cid)

SpecHist == Init /\ [][NextHist]_vars

(***************************************************************************)
(* SpecPar: the handlers run concurrently as in Spec, and an admin status  *)
(* update begins only on a reference id no other status update in flight   *)
(* is working on: transitions overlap on different ids only.  There is     *)
(* room for one more audit entry than in Spec, and the calls fall within   *)
(* one second of the clock.                                                *)
(***************************************************************************)
ParHistory == MaxHistory + 1

NextPar ==
    \/ /\ HistoryRoom(ParHistory)
       /\ \E p \in Procs, in \in Submissions : SubmitComplaint(p, in.request, in.ai)
    \/ \E p \in Procs : CreateInsertComplaint(p)
    \/ \E p \in Procs : CreateInsertHistory(p)
    \/ \E p \in Procs : CreateCommit(p)
    \/ /\ HistoryRoom(ParHistory)
       /\ \E p \in Procs, cid \in KnownIds, s \in Targets, n \in NotesValues :
              /\ \A q \in InFlight("transition") : proc[q].complaint_id # cid
              /\ AdminUpdateStatus(p, cid, s, n)
    \/ \E p \in Procs : UpdateSelect(p)
    \/ \E p \in Procs : UpdateUpdate(p)
    \/ \E p \in Procs : UpdateInsertHistory(p)
    \/ \E p \in Procs : UpdateCommit(p)

SpecPar == Init /\ [][NextPar]_vars

(***************************************************************************)
(* SpecRead: registrations and admin status updates called one at a time,  *)
(* with the reading operations (get, history, list, stats) between them;   *)
(* the calls fall within one second of the clock.                          *)
(***************************************************************************)
NextRead ==
    \/ /\ HistoryRoom(MaxHistory)
       /\ \E in \in Submissions : SubmitComplaint(Sequential, in.request, in.ai)
    \/ CreateInsertComplaint(Sequential)
    \/ CreateInsertHistory(Sequential)
    \/ CreateCommit(Sequential)
    \/ /\ HistoryRoom(MaxHistory)
       /\ \E cid \in KnownIds, s \in Targets, n \in NotesValues :
              AdminUpdateStatus(Sequential, cid, s, n)
    \/ UpdateSelect(Sequential)
    \/ UpdateUpdate(Sequential)
    \/ UpdateInsertHistory(Sequential)
    \/ UpdateCommit(Sequential)
    \/ /\ proc[Sequential].pc = "idle"
       /\ \E cid \in KnownIds : GetComplaintById(cid)
    \/ /\ proc[Sequential].pc = "idle"
       /\ \E cid \in KnownIds : GetStatusHistory(cid)
    \/ \E st \in StatusFilters, d \in DepartmentFilters, pr \in PriorityFilters :
           \E page \in Pages, per_page \in PerPages :
               ListCount(Sequential, st, d, pr, page, per_page)
    \/ ListRows(Sequential)
    \/ StatsTotal(Sequential)
    \/ StatsByStatus(Sequential)
    \/ StatsByDepartment(Sequential)
    \/ StatsByPriority(Sequential)

SpecRead == Init /\ [][NextRead]_vars

(***************************************************************************)
(* SpecRoute: the router called with every extraction result of            *)
(* Classifications, between registrations and admin status updates that    *)
(* are called one at a time; the calls fall within one second of the clock.*)
(***************************************************************************)
NextRoute ==
    \/ /\ HistoryRoom(MaxHistory)
       /\ \E in \in Submissions : SubmitComplaint(Sequential, in.request, in.ai)
    \/ CreateInsertComplaint(Sequential)
    \/ CreateInsertHistory(Sequential)
    \/ CreateCommit(Sequential)
    \/ /\ HistoryRoom(MaxHistory)
       /\ \E cid \in KnownIds, s \in Targets, n \in NotesValues :
              AdminUpdateStatus(Sequential, cid, s, n)
    \/ UpdateSelect(Sequential)
    \/ UpdateUpdate(Sequential)
    \/ UpdateInsertHistory(Sequential)
    \/ UpdateCommit(Sequential)
    \/ /\ proc[Sequential].pc = "idle"
       /\ \E ai \in Classifications : RouteComplaint(ai)

SpecRoute == Init /\ [][NextRoute]_vars

(***************************************************************************)
(* SpecClassify: process_complaint called on its own, one call at a time,  *)
(* with every provider setting and every reply.  The call reads and writes *)
(* nothing but its argument and the reply.                                 *)
(***************************************************************************)
NextClassify ==
    \/ \E text \in ClassifyTexts, provider \in Providers :
           ProcessComplaint(Sequential, text, provider)
    \/ \E reply \in Replies : BackendReply(Sequential, reply)

SpecClassify == Init /\ [][NextClassify]_vars

(***************************************************************************)
(* SpecIntake: registrations from the request on (process_complaint,       *)
(* route_complaint, get_next_complaint_id, create_complaint) and admin     *)
(* status updates, called one at a time; the calls fall within one second  *)
(* of the clock.                                                           *)
(***************************************************************************)
IntakeRequests == {in.request : in \in Submissions}

NextIntake ==
    \/ /\ HistoryRoom(MaxHistory)
       /\ \E request \in IntakeRequests, provider \in Providers :
              SubmitRequest(Sequential, request, provider)
    \/ \E reply \in Replies : BackendReply(Sequential, reply)
    \/ RegisterClassified(Sequential)
    \/ CreateInsertComplaint(Sequential)
    \/ CreateInsertHistory(Sequential)
    \/ CreateCommit(Sequential)
    \/ /\ HistoryRoom(MaxHistory)
       /\ \E cid \in KnownIds, s \in Targets, n \in NotesValues :
              AdminUpdateStatus(Sequential, cid, s, n)
    \/ UpdateSelect(Sequential)
    \/ UpdateUpdate(Sequential)
    \/ UpdateInsertHistory(Sequential)
    \/ UpdateCommit(Sequential)

SpecIntake == Init /\ [][NextIntake]_vars

(***************************************************************************)
(* SpecFault: the registrations of Spec, where the store may refuse any    *)
(* statement of create_complaint.                                          *)
(***************************************************************************)
NextFault ==
    \/ Tick
    \/ /\ HistoryRoom(MaxHistory)
       /\ \E p \in Procs, in \in Submissions : SubmitComplaint(p, in.request, in.ai)
    \/ \E p \in Procs : CreateInsertComplaint(p)
    \/ \E p \in Procs : CreateInsertHistory(p)
    \/ \E p \in Procs : CreateCommit(p)
    \/ \E p \in Procs : CreateFault(p)

SpecFault == Init /\ [][NextFault]_vars

(***************************************************************************)
(* SpecStore: registrations (refused and failed ones included) and status  *)
(* updates, through the admin handler or by a direct call of               *)
(* update_complaint_status, in every interleaving.  The clock stands       *)
(* still: the time of a write plays no part in what these calls store.     *)
(***************************************************************************)
NextStore ==
    \/ /\ HistoryRoom(MaxHistory)
       /\ \E p \in Procs, in \in Submissions : SubmitComplaint(p, in.request, in.ai)
    \/ \E p \in Procs : CreateInsertComplaint(p)
    \/ \E p \in Procs : CreateInsertHistory(p)
    \/ \E p \in Procs : CreateCommit(p)
    \/ \E p \in Procs : CreateFault(p)
    \/ /\ HistoryRoom(MaxHistory)
       /\ \E p \in Procs, cid \in KnownIds, s \in Targets, n \in NotesValues :
              AdminUpdateStatus(p, cid, s, n)
    \/ /\ HistoryRoom(MaxHistory)
       /\ \E p \in Procs, cid \in KnownIds, s \in Targets, n \in NotesValues :
              CallUpdateComplaintStatus(p, cid, s, n, "Admin")
    \/ \E p \in Procs : UpdateSelect(p)
    \/ \E p \in Procs : UpdateUpdate(p)
    \/ \E p \in Procs : UpdateInsertHistory(p)
    \/ \E p \in Procs : UpdateCommit(p)

SpecStore == Init /\ [][NextStore]_vars

(***************************************************************************)
(* SpecStats: get_dashboard_stats called by one handler while another      *)
(* handler registers complaints and updates statuses; a write may commit   *)
(* between two queries of the statistics.  The calls fall within one       *)
(* second of the clock.                                                    *)
(***************************************************************************)
Writer == CHOOSE p \in Procs : p # Sequential

NextStats ==
    \/ /\ HistoryRoom(MaxHistory)
       /\ \E in \in Submissions : SubmitComplaint(Writer, in.request, in.ai)
    \/ CreateInsertComplaint(Writer)
    \/ CreateInsertHistory(Writer)
    \/ CreateCommit(Writer)
    \/ /\ HistoryRoom(MaxHistory)
       /\ \E cid \in KnownIds, s \in ComplaintStatus, n \in NotesValues :
              AdminUpdateStatus(Writer, cid, s, n)
    \/ UpdateSelect(Writer)
    \/ UpdateUpdate(Writer)
    \/ UpdateInsertHistory(Writer)
    \/ UpdateCommit(Writer)
    \/ StatsTotal(Sequential)
    \/ StatsByStatus(Sequential)
    \/ StatsByDepartment(Sequential)
    \/ StatsByPriority(Sequential)

SpecStats == Init /\ [][NextStats]_vars

(***************************************************************************)
(* Properties                                                              *)
(***************************************************************************)
HasRecord(table, cid) == RowsOf(table, cid) # {}

\* the record of cid in a complaints table
RecordOf(table, cid) == table[CHOOSE i \in RowsOf(table, cid) : TRUE]

\* the audit rows of cid in a status_history table, in the order they were written
AuditRowsOf(table, cid) == SelectSeq(table, LAMBDA r : r.complaint_id = cid)

\* the audit rows of cid, in the order they were written
AuditRows(cid) == SelectSeq(status_history, LAMBDA r : r.complaint_id = cid)

ChainContiguous(h) == \A i \in 1..(Len(h) - 1) : h[i].new_status = h[i + 1].old_status

KeepsWriteOrder(h) == \A i, j \in DOMAIN h : i < j => h[i].id < h[j].id

\* C1: for every reference id, the entries history(id) returns form a contiguous
\* chain (each entry's old_status is the new_status of the entry before it), also
\* when two transitions on the id overlapped.  Stated for the results that keep
\* the rows in the order they were written, which history(id) can always return.
C1_HistoryChainContiguous ==
    \A cid \in KnownIds : \A h \in HistoryResults(cid) :
        KeepsWriteOrder(h) => ChainContiguous(h)

\* C2: no two stored records have the same reference id, and every stored
\* record a reader can see has its first audit entry (new -> submitted).
C2_UniqueIdsAndFirstEntry ==
    /\ \A i, j \in DOMAIN complaints :
           i # j => complaints[i].complaint_id # complaints[j].complaint_id
    /\ \A i \in DOMAIN complaints :
           \E k \in RowsOf(status_history, complaints[i].complaint_id) :
               /\ status_history[k].old_status = "new"
               /\ status_history[k].new_status = "submitted"

\* two registrations were handed the same id; one is stored, the other was refused
C2_Witness ==
    /\ response.op = "register"
    /\ response.outcome = "StorageFault"
    /\ HasRecord(complaints, response.complaint_id)
    /\ Len(complaints) = 1

\* C3: id allocation and the insertion of the record are one atomic unit: two
\* registrations never hold the same allocated id, and every allocated id
\* becomes the id of the record of the registration it was allocated to.
C3_AllocationAtomic ==
    /\ \A p, q \in Procs :
           (p # q /\ proc[p].op = "register" /\ proc[q].op = "register")
               => proc[p].complaint_id # proc[q].complaint_id
    /\ response.op = "register" => response.outcome = "ok"

\* C4: in every state a reader can observe, the record's status is the
\* new_status of the audit entry appended last for its id.
C4_StatusMatchesLastEntry ==
    \A i \in DOMAIN complaints :
        LET rows == AuditRows(complaints[i].complaint_id)
        IN  /\ rows # <<>>
            /\ complaints[i].status = rows[Len(rows)].new_status

\* a transition has committed, and another has written its UPDATE but not yet
\* its audit entry: the committed tables show none of it
C4_Witness ==
    /\ \E k \in DOMAIN status_history : status_history[k].old_status # "new"
    /\ \E p \in Procs :
           /\ proc[p].pc = "update_history"
           /\ RecordOf(wcomplaints, proc[p].complaint_id).status
                  # RecordOf(complaints, proc[p].complaint_id).status

C6_NotFoundNoEffect ==
    [][ /\ (response'.op = "transition" /\ ~HasRecord(complaints, response'.complaint_id))
            => /\ response'.outcome = "NotFound"
               /\ UNCHANGED <<complaints, status_history, wcomplaints, whistory>>
        /\ \A p \in Procs :
               (/\ proc[p].op = "transition"
                /\ ~HasRecord(complaints, proc[p].complaint_id)
                /\ proc'[p] # proc[p])
                   => /\ proc'[p] = Idle
                      /\ response' = Answer(proc[p], "NotFound")
                      /\ UNCHANGED <<complaints, status_history, wcomplaints, whistory>>
      ]_vars

\* SF-9999 was asked for while records and entries are stored
C6_Witness ==
    /\ response.op = "transition"
    /\ response.outcome = "NotFound"
    /\ response.complaint_id = "SF-9999"
    /\ Len(complaints) >= 1
    /\ Len(status_history) >= 2

\* C7: after register and k transitions to s1..sk run one after the other,
\* history(id) returns k+1 entries, oldest first: new -> submitted, then
\* s(i-1) -> s(i) with s0 = submitted.
C7_SequentialHistory ==
    response.op = "history" =>
        LET rows == AuditRows(response.complaint_id)
            h == response.entries
        IN  /\ Len(h) = Len(rows)
            /\ \A i \in DOMAIN h :
                   /\ h[i].new_status = rows[i].new_status
                   /\ h[i].old_status = IF i = 1 THEN "new" ELSE rows[i - 1].new_status
            /\ h # <<>> => h[1].new_status = "submitted"

\* C8: for every stored id, every current status and every target status of the
\* enumeration (the current one included) the transition succeeds, and the
\* record's status is then the target.
C8_TransitionTotal ==
    [][ /\ (response'.op = "transition" /\ HasRecord(complaints, response'.complaint_id))
            => response'.outcome = "ok"
        /\ \A p \in Procs :
               (proc[p].pc = "update_commit" /\ proc'[p].pc = "idle")
                   => RecordOf(complaints', proc[p].complaint_id).status = proc[p].new_status
        /\ \A p \in Procs :
               (/\ proc[p].op = "transition"
                /\ HasRecord(complaints, proc[p].complaint_id)
                /\ proc'[p] # proc[p])
                   => \/ proc'[p].op = "transition"
                      \/ response' = Answer(proc[p], "ok")
      ]_vars

\* submitted -> closed, then closed -> closed, both applied
C8_Witness ==
    /\ response.op = "transition"
    /\ response.outcome = "ok"
    /\ LET rows == AuditRows(response.complaint_id)
       IN  /\ Len(rows) = 3
           /\ rows[2].old_status = "submitted" /\ rows[2].new_status = "closed"
           /\ rows[3].old_status = "closed" /\ rows[3].new_status = "closed"
    /\ RecordOf(complaints, response.complaint_id).status = "closed"

\* C9: submitted is entered only at creation: no audit entry other than the
\* first one of a record has new_status submitted.
C9_SubmittedOnlyAtCreation ==
    \A cid \in KnownIds :
        LET rows == AuditRows(cid)
        IN  \A i \in DOMAIN rows : rows[i].new_status = "submitted" => i = 1

\* C9, amended: every record starts in submitted, with new -> submitted as its
\* first audit entry, and no later entry has the prior status "new".
C9_SubmittedAtCreation ==
    \A cid \in KnownIds :
        LET rows == AuditRows(cid)
        IN  HasRecord(complaints, cid) =>
                /\ rows # <<>>
                /\ rows[1].old_status = "new"
                /\ rows[1].new_status = "submitted"
                /\ \A i \in 2..Len(rows) : rows[i].old_status # "new"

\* a record was taken from assigned back to submitted by a transition
C9_Witness ==
    \E cid \in KnownIds :
        LET rows == AuditRows(cid)
        IN  /\ Len(rows) = 3
            /\ rows[3].old_status = "assigned"
            /\ rows[3].new_status = "submitted"
            /\ RecordOf(complaints, cid).status = "submitted"

\* C10: a successful transition on r changes exactly the status and updated_at
\* of r's record; its other fields and every other record stay as they were.
C10_TransitionFrame ==
    [][ \A p \in Procs :
            proc[p].op = "transition" =>
                IF proc[p].pc = "update_commit" /\ proc'[p].pc = "idle"
                THEN /\ Len(complaints') = Len(complaints)
                     /\ \A i \in DOMAIN complaints :
                            complaints'[i] =
                                IF complaints[i].complaint_id = proc[p].complaint_id
                                THEN [complaints[i] EXCEPT !.status = proc[p].new_status,
                                                           !.updated_at = complaints'[i].updated_at]
                                ELSE complaints[i]
                ELSE complaints' = complaints
      ]_vars

\* of two records one was moved on, a second after it was created
C10_Witness ==
    /\ Len(complaints) = 2
    /\ response.op = "transition"
    /\ response.outcome = "ok"
    /\ LET r == RecordOf(complaints, response.complaint_id)
       IN  /\ r.status # "submitted"
           /\ r.updated_at # r.created_at

\* C11: each successful transition on r appends exactly one audit entry for r
\* and none for any other id; registration alone writes the entry with prior
\* status "new", so the entries of r number 1 plus the transitions applied to r.
C11_OneEntryPerTransition ==
    [][ \A cid \in KnownIds :
            LET before == AuditRowsOf(status_history, cid)
                after == AuditRowsOf(status_history', cid)
                answered(op) == /\ response'.op = op
                                /\ response'.outcome = "ok"
                                /\ response'.complaint_id = cid
            IN  /\ IF answered("transition")
                   THEN /\ Len(after) = Len(before) + 1
                        /\ SubSeq(after, 1, Len(before)) = before
                        /\ after[Len(after)].old_status # "new"
                   ELSE IF answered("register")
                   THEN /\ before = <<>>
                        /\ Len(after) = 1
                        /\ after[1].old_status = "new"
                   ELSE after = before
      ]_vars

\* of two stored records one has been moved on once: two entries for it, one for the other
C11_Witness ==
    /\ response.op = "transition"
    /\ response.outcome = "ok"
    /\ Len(complaints) = 2
    /\ Len(AuditRows(response.complaint_id)) = 2
    /\ \E cid \in KnownIds : cid # response.complaint_id /\ Len(AuditRows(cid)) = 1

\* C12: across register, transition, get, history, list and stats, records and
\* audit entries are only added: no step removes a record or an audit entry, and
\* no step changes an audit entry that is stored.
C12_StoreOnlyGrows ==
    [][ /\ Len(complaints') >= Len(complaints)
        /\ \A i \in DOMAIN complaints :
               /\ complaints'[i].id = complaints[i].id
               /\ complaints'[i].complaint_id = complaints[i].complaint_id
        /\ Len(status_history') >= Len(status_history)
        /\ \A i \in DOMAIN status_history : status_history'[i] = status_history[i]
      ]_vars

\* a list call answered over two records, after a transition has been audited
C12_Witness ==
    /\ response.op = "list"
    /\ response.total = 2
    /\ Len(status_history) = 3
    /\ \E i \in DOMAIN complaints : complaints[i].status # "submitted"

C14_IdsIncreasingImmutable ==
    [][ /\ \A i \in DOMAIN complaints :
               complaints'[i].complaint_id = complaints[i].complaint_id
        /\ \A i, j \in DOMAIN complaints' :
               i < j => NumberOf(complaints'[i].complaint_id)
                            < NumberOf(complaints'[j].complaint_id)
      ]_vars

\* SF-0001 then SF-0002 were created, and SF-0001 has since been moved on
C14_Witness ==
    /\ Len(complaints) = 2
    /\ complaints[1].complaint_id = "SF-0001"
    /\ complaints[2].complaint_id = "SF-0002"
    /\ complaints[1].status # "submitted"
    /\ complaints[1].updated_at # complaints[1].created_at

\* C15: transitions on two different reference ids are independent.  However
\* their steps interleave, each transition succeeds, and when it commits the
\* record and the audit history of its id become what the transition run alone
\* makes of them: the status is the target, one entry (status before -> target)
\* is appended to the id's chain, and the record and history of every other id
\* stay as they are.
C15_DifferentIdsIndependent ==
    [][ \A p \in Procs :
            (proc[p].op = "transition" /\ proc'[p] # proc[p]) =>
                LET r == proc[p].complaint_id
                    before == AuditRowsOf(status_history, r)
                    after == AuditRowsOf(status_history', r)
                IN  IF proc[p].pc = "update_commit"
                    THEN /\ response' = Answer(proc[p], "ok")
                         /\ RecordOf(complaints', r) =
                                [RecordOf(complaints, r) EXCEPT
                                    !.status = proc[p].new_status,
                                    !.updated_at = RecordOf(complaints', r).updated_at]
                         /\ Len(after) = Len(before) + 1
                         /\ SubSeq(after, 1, Len(before)) = before
                         /\ after[Len(after)].old_status = RecordOf(complaints, r).status
                         /\ after[Len(after)].new_status = proc[p].new_status
                         /\ ChainContiguous(after)
                         /\ \A c \in KnownIds \ {r} :
                                /\ AuditRowsOf(status_history', c) = AuditRowsOf(status_history, c)
                                /\ HasRecord(complaints, c) =>
                                       RecordOf(complaints', c) = RecordOf(complaints, c)
                    ELSE /\ proc'[p].op = "transition"
                         /\ UNCHANGED <<complaints, status_history>>
      ]_vars

\* one transition has written and is about to commit while a transition on
\* another id has read its record and waits to write
C15_Witness ==
    \E p, q \in Procs :
        /\ proc[p].pc = "update_commit"
        /\ proc[q].pc = "update_update"
        /\ proc[p].complaint_id # proc[q].complaint_id
        /\ HasRecord(complaints, proc[p].complaint_id)
        /\ HasRecord(complaints, proc[q].complaint_id)

\* the decision a route call returned, and the extraction result it was called with
Routed == response.entries[1]

\* C16: for every extraction result (any department name, configured or not,
\* and any priority) route returns at least 6 hours.
C16_DeadlineAtLeastSix ==
    response.op = "route" => Routed.sla_hours >= 6

\* the shortest deadline there is: Delhi Police at high priority
C16_Witness ==
    /\ response.op = "route"
    /\ Routed.ai.responsible_department = "Delhi Police"
    /\ Routed.ai.priority = "high"
    /\ Routed.sla_hours = 6

\* C17: with b the base hours of the department returned, route returns
\* max(b/2, 6) at high priority, b * 1.5 as an integer at low priority, and b
\* at medium priority.
C17_UrgencyAdjustment ==
    response.op = "route" =>
        LET b == DEPARTMENTS[Routed.department].sla_hours
            r == Routed.sla_hours
        IN  CASE Routed.ai.priority = "high" -> IF b >= 12 THEN 2 * r = b ELSE r = 6
              [] Routed.ai.priority = "low" -> 2 * r = 3 * b
              [] OTHER -> r = b

\* DDA at low priority: 120 hours become 180
C17_Witness ==
    /\ response.op = "route"
    /\ Routed.ai.responsible_department = "DDA"
    /\ Routed.ai.priority = "low"
    /\ Routed.sla_hours = 180

\* C18: for a department name that is not configured, route returns General
\* Helpdesk with the deadline of General Helpdesk's base hours at the given
\* priority, and fails with no error; a configured department is returned as
\* it was given.
C18_UnknownUnitDefaulted ==
    response.op = "route" =>
        /\ response.outcome = "ok"
        /\ IF Routed.ai.responsible_department \in DOMAIN DEPARTMENTS
           THEN Routed.department = Routed.ai.responsible_department
           ELSE /\ Routed.department = "General Helpdesk"
                /\ Routed.sla_hours = CASE Routed.ai.priority = "high" -> 36
                                         [] Routed.ai.priority = "low" -> 108
                                         [] OTHER -> 72

\* "Municipal Office" at high priority was sent to General Helpdesk with 36 hours
C18_Witness ==
    /\ response.op = "route"
    /\ Routed.ai.responsible_department = "Municipal Office"
    /\ Routed.ai.priority = "high"
    /\ Routed.department = "General Helpdesk"
    /\ Routed.sla_hours = 36

C20_StoredUnitConfigured ==
    /\ response.op = "route" => Routed.department \in DOMAIN DEPARTMENTS
    /\ \A i \in DOMAIN complaints : complaints[i].department \in DOMAIN DEPARTMENTS
    /\ \A i \in DOMAIN wcomplaints : wcomplaints[i].department \in DOMAIN DEPARTMENTS

\* the registration whose extraction named "Municipal Office" is stored under General Helpdesk
C20_Witness ==
    \E i \in DOMAIN complaints :
        /\ complaints[i].raw_text = "Garbage dumped on the road is a hazard"
        /\ complaints[i].department = "General Helpdesk"
        /\ \E in \in Submissions :
               /\ in.request.text = complaints[i].raw_text
               /\ in.ai.responsible_department \notin DOMAIN DEPARTMENTS

\* the classify answer of the step just taken
Classified == response.entries[1]

\* C21: for every text and every behaviour of the backend (an answer, an error,
\* a timeout, field values out of range or outside the enumeration) the result
\* process_complaint returns has a priority that is low, medium or high and a
\* confidence between 0 and 1.
C21_ResultWellFormed ==
    response.op = "classify" =>
        /\ Classified.result.priority \in {"low", "medium", "high"}
        /\ Classified.result.confidence >= 0
        /\ Classified.result.confidence <= 100

\* the backend answered with a confidence of 1.5, and with a priority outside
\* the enumeration
C21_Witness ==
    /\ response.op = "classify"
    /\ Classified.reply.kind = "content"
    /\ Classified.reply.content \in {JsonOverConfident, JsonBadPriority}
    /\ Classified.result.confidence = FallbackConfidence

\* the contents that are one JSON object whose members the AIExtractionResult
\* constructor accepts, bare or inside a fence the cleaning removes
WellFormedContents ==
    {JsonGood, JsonUnsure, JsonHalfSure, JsonUnknownDepartment, "{}",
     Fence \o "json\n" \o JsonGood \o "\n" \o Fence,
     Fence \o "\n" \o JsonUnsure \o "\n" \o Fence \o "\n",
     "  " \o JsonHalfSure \o "\n"}

\* the backend call failed, timed out, or came back with nothing that parses
\* into a valid result
BackendTrouble(reply) ==
    \/ reply.kind \in {"connect_error", "timeout", "http_error", "not_json", "no_content"}
    \/ reply.kind = "content" /\ reply.content \notin WellFormedContents

\* C22: process_complaint never fails outward.  Whenever the backend call
\* errors, times out, returns content that does not parse or fields that fail
\* validation, it returns the result of the rule-based fallback for the text;
\* every call returns a result, and a registration goes on with that result.
C22_ClassifyNeverFails ==
    response.op = "classify" =>
        /\ response.outcome \in {"model", "fallback"}
        /\ BackendTrouble(Classified.reply) =>
               /\ response.outcome = "fallback"
               /\ Classified.result = fallback_extraction(Classified.text)
        /\ Classified.result.priority \in PriorityLevel
        /\ \A p \in Procs :
               proc[p].op = "register" =>
                   /\ proc[p].pc = "classified"
                   /\ proc[p].ai = Classified.result

\* a registration whose backend call raised TypeError inside the parser (a null
\* confidence) goes on with the fallback result
C22_Witness ==
    /\ response.op = "classify"
    /\ Classified.reply.kind = "content"
    /\ Classified.reply.content = JsonNullConfidence
    /\ \E p \in Procs : proc[p].pc = "classified" /\ proc[p].ai.confidence = FallbackConfidence

\* C23: process_complaint tries the configured backends in their priority order
\* (the local model backend, then the hosted-API backend), returns the first
\* well-formed result, and runs the rule-based fallback only after every
\* configured backend has errored, timed out or returned unparseable content.
C23_FallbackAfterEveryBackend ==
    response.op = "classify" /\ Classified.provider \in ModelProviders =>
        /\ Classified.called = SubSeq(<<"ollama", "openai">>, 1, Len(Classified.called))
        /\ response.outcome = "fallback" => Classified.called = <<"ollama", "openai">>

\* what classification and routing decided of a stored record
ClassificationOf(row) ==
    <<row.issue_type, row.location, row.department, row.priority, row.summary,
      row.estimated_resolution_hours>>

\* C24: when the backend call fails or times out the fallback runs within the
\* same process_complaint call, before the registration continues: a call posts
\* to a backend at most once, the step that ends the POST leaves the
\* registration with its result (the fallback's when the call failed), nothing
\* is retried or left queued, and no later step changes the classification of a
\* stored record.
C24_OneCallNoRevision ==
    [][/\ \A p \in Procs :
              /\ Len(proc'[p].acc) <= 1
              /\ proc[p].pc = "llm_post" /\ proc'[p] # proc[p] =>
                     /\ proc'[p].pc = "classified"
                     /\ response'.op = "classify"
                     /\ Len(response'.entries[1].called) = 1
                     /\ proc'[p].ai = response'.entries[1].result
                     /\ BackendTrouble(response'.entries[1].reply) =>
                            proc'[p].ai = fallback_extraction(proc[p].request.text)
              /\ proc[p].pc = "classified" /\ proc'[p] # proc[p] =>
                     /\ proc'[p].pc = "create_insert"
                     /\ proc'[p].ai = proc[p].ai
       /\ \A i \in DOMAIN complaints :
              /\ i \in DOMAIN complaints'
              /\ ClassificationOf(complaints'[i]) = ClassificationOf(complaints[i])]_vars

\* a record classified by the fallback has been stored and then resolved; its
\* classification is still the fallback's
C24_Witness ==
    /\ response.op = "transition"
    /\ response.outcome = "ok"
    /\ \E i \in DOMAIN complaints :
           /\ complaints[i].status = "resolved"
           /\ complaints[i].summary = complaints[i].raw_text
           /\ complaints[i].location = "Laxmi Nagar metro gate"

\* C25: the rule-based fallback always sets the same fixed confidence, and that
\* constant is lower than the confidence of every result of a successful
\* model-backed extraction, so the confidence tells a rule-based classification
\* from a model-based one.
C25_FallbackConfidenceLowest ==
    response.op = "classify" =>
        /\ response.outcome = "fallback" => Classified.result.confidence = FallbackConfidence
        /\ response.outcome = "model" => Classified.result.confidence > FallbackConfidence

\* C26: when the store rejects a write of create_complaint (the insertion of the
\* record, of the first audit entry, or the commit), the registration ends with
\* the fault as its answer, the handler does not try again, and the committed
\* tables are as they were: neither the record nor the audit entry of that
\* registration is stored, and nothing of it is left to be committed later.
C26_StorageFaultSurfaced ==
    [][\A p \in Procs :
           /\ proc[p].pc \in {"create_insert", "create_history", "create_commit"}
           /\ response'.outcome = "StorageFault"
           /\ proc'[p] # proc[p]
           => /\ response'.op = "register"
              /\ response'.complaint_id = proc[p].complaint_id
              /\ proc'[p] = Idle
              /\ complaints' = complaints
              /\ status_history' = status_history
              /\ wowner = p => wowner' = 0 /\ wcomplaints' = <<>> /\ whistory' = <<>>
              /\ wowner # p => UNCHANGED <<wowner, wcomplaints, whistory>>]_vars

\* a registration ended in a StorageFault that is not the refusal of a duplicate
\* reference id: no record of its id is stored
C26_Witness ==
    /\ response.op = "register"
    /\ response.outcome = "StorageFault"
    /\ ~HasRecord(complaints, response.complaint_id)
    /\ wowner = 0
    /\ \A p \in Procs : proc[p].pc = "idle"

\* C27: get_status_history on a reference id that has no stored record returns
\* the empty sequence, raises no error and changes no state.
C27_HistoryOfUnknownIdEmpty ==
    [][response'.op = "history" /\ ~HasRecord(complaints, response'.complaint_id) =>
           /\ response'.outcome = "ok"
           /\ response'.entries = <<>>
           /\ UNCHANGED <<complaints, status_history, wowner, wcomplaints, whistory, clock,
                          proc>>]_vars

\* the history of an id without a record was asked for while the store holds
\* records and audit entries of other ids
C27_Witness ==
    /\ response.op = "history"
    /\ ~HasRecord(complaints, response.complaint_id)
    /\ response.entries = <<>>
    /\ complaints # <<>>
    /\ Len(status_history) >= 2

\* the positions, in the order of the configuration, of the departments with a
\* keyword that is a substring of the text in lower case
UnitsNamedIn(text) ==
    {i \in DOMAIN DepartmentNames :
        \E k \in DOMAIN DEPARTMENTS[DepartmentNames[i]].keywords :
            Contains(Lower(text), DEPARTMENTS[DepartmentNames[i]].keywords[k])}

\* C28: the rule-based fallback assigns the first department, in the order of
\* the configuration, that has a keyword contained in the lower-cased text, and
\* General Helpdesk when no department has one; for "Streetlight near Laxmi
\* Nagar metro gate broken for 3 days", which holds keywords of MCD Electrical
\* only, the department is MCD Electrical.
C28_FirstUnitInOrder ==
    response.op = "classify" /\ response.outcome = "fallback" =>
        LET named == UnitsNamedIn(Classified.text)
            department == Classified.result.responsible_department
        IN  /\ named = {} => department = "General Helpdesk"
            /\ named # {} =>
                   \E i \in named : /\ department = DepartmentNames[i]
                                    /\ \A j \in named : i <= j
            /\ Classified.text = "Streetlight near Laxmi Nagar metro gate broken for 3 days" =>
                   /\ named = {1}
                   /\ DepartmentNames[1] = "MCD Electrical"
                   /\ department = "MCD Electrical"

\* the fallback ran on a text that names two departments, PWD (road) before MCD
\* Sanitation (garbage)
C28_Witness ==
    /\ response.op = "classify"
    /\ response.outcome = "fallback"
    /\ Classified.text = "Garbage dumped on the road is a hazard"
    /\ Cardinality(UnitsNamedIn(Classified.text)) = 2
    /\ Classified.result.responsible_department = "PWD"

\* the positions, in the order high, medium, low, of the priority levels with a
\* keyword that is a substring of the text in lower case
LevelsNamedIn(text) ==
    {i \in DOMAIN PRIORITY_KEYWORDS :
        \E k \in DOMAIN PRIORITY_KEYWORDS[i].keywords :
            Contains(Lower(text), PRIORITY_KEYWORDS[i].keywords[k])}

\* C29: the rule-based fallback sets the priority by testing the high, then the
\* medium, then the low keyword list against the lower-cased text: the first
\* list with a keyword contained in the text decides (a text with a high and a
\* low keyword gets high), and a text with no priority keyword gets medium.
C29_FirstLevelInOrder ==
    response.op = "classify" /\ response.outcome = "fallback" =>
        LET named == LevelsNamedIn(Classified.text)
            priority == Classified.result.priority
        IN  /\ <<PRIORITY_KEYWORDS[1].level, PRIORITY_KEYWORDS[2].level,
                 PRIORITY_KEYWORDS[3].level>> = <<"high", "medium", "low">>
            /\ named = {} => priority = "medium"
            /\ 1 \in named => priority = "high"
            /\ 1 \notin named /\ 2 \in named => priority = "medium"
            /\ named = {3} => priority = "low"

\* the fallback ran on a text with a high keyword (dangerous) and a low one
\* (request)
C29_Witness ==
    /\ response.op = "classify"
    /\ response.outcome = "fallback"
    /\ Classified.text = "Request: dangerous pothole in Rohini park road"
    /\ LevelsNamedIn(Classified.text) = {1, 3}
    /\ Classified.result.priority = "high"

\* the deadline of a department's base hours at a priority: halved and at least
\* six hours for high, one and a half times for low, the base for medium
DeadlineFor(department, priority) ==
    LET base == DEPARTMENTS[department].sla_hours
    IN  CASE priority = "high" -> IF base \div 2 >= 6 THEN base \div 2 ELSE 6
          [] priority = "low" -> (base * 3) \div 2
          [] OTHER -> base

\* C30: in every reachable state the estimated_resolution_hours of each stored
\* record is the deadline route_complaint computes from the base hours of the
\* record's stored department and the record's stored priority; no later
\* operation breaks this.
C30_StoredDeadlineIsRouted ==
    \A i \in DOMAIN complaints :
        /\ complaints[i].department \in DOMAIN DEPARTMENTS
        /\ complaints[i].priority \in PriorityLevel
        /\ complaints[i].estimated_resolution_hours =
               DeadlineFor(complaints[i].department, complaints[i].priority)
        /\ complaints[i].estimated_resolution_hours =
               route_complaint([responsible_department |-> complaints[i].department,
                                priority |-> complaints[i].priority])[2]

\* a record the model classified as MCD Electrical at high priority is stored
\* with 24 hours and has since been resolved; one classified as an unknown
\* department is stored under General Helpdesk with its base hours
C30_Witness ==
    /\ response.op = "transition"
    /\ response.outcome = "ok"
    /\ \E i, j \in DOMAIN complaints :
           /\ complaints[i].status = "resolved"
           /\ complaints[i].department = "MCD Electrical"
           /\ complaints[i].priority = "high"
           /\ complaints[i].estimated_resolution_hours = 24
           /\ complaints[j].issue_type = "Stray dogs"
           /\ complaints[j].department = "General Helpdesk"
           /\ complaints[j].estimated_resolution_hours = 72

\* C32: the old_status the admin status update reports in its response is the
\* prior status of the audit entry the same call appended, under every
\* interleaving with other status updates on the same reference id.  (The
\* handler reports the status it read before it called the store; the call
\* that appends the entry keeps it in args.)
C32_ReportedOldStatusIsAudited ==
    [][\A p \in Procs :
           /\ proc[p].pc = "update_history"
           /\ proc'[p].pc = "update_commit"
           /\ proc[p].args # <<>>
           => /\ Len(whistory') = Len(whistory) + 1
              /\ whistory'[Len(whistory')].complaint_id = proc[p].complaint_id
              /\ whistory'[Len(whistory')].old_status = proc'[p].args[1]]_vars

\* C31: in every reachable state, also after registrations that failed, the
\* numbers of the stored reference ids are exactly 1..n for the n stored
\* records, and the number of each record is its row id.
C31_IdsDenseAndEqualRowIds ==
    /\ {complaints[i].id : i \in DOMAIN complaints} = 1..Len(complaints)
    /\ \A i \in DOMAIN complaints :
           complaints[i].complaint_id = FormatComplaintId(complaints[i].id)
    /\ {NumberOf(complaints[i].complaint_id) : i \in DOMAIN complaints} = 1..Len(complaints)

\* a registration has just been refused while a record is stored; the stored
\* ids are still SF-0001 onwards
C31_Witness ==
    /\ response.op = "register"
    /\ response.outcome = "StorageFault"
    /\ Len(complaints) >= 1
    /\ complaints[1].complaint_id = "SF-0001"

\* C33: every result of get_dashboard_stats satisfies pending + in_progress +
\* resolved + escalated = total_complaints, also when registrations or status
\* updates commit between the queries it runs.
C33_StatsAddUp ==
    response.op = "stats" =>
        response.entries[1].pending + response.entries[1].in_progress
            + response.entries[1].resolved + response.entries[1].escalated
        = response.entries[1].total_complaints

\* list calls of one handler while the other handler writes
NextList ==
    \/ /\ HistoryRoom(MaxHistory)
       /\ \E in \in Submissions : SubmitComplaint(Writer, in.request, in.ai)
    \/ CreateInsertComplaint(Writer)
    \/ CreateInsertHistory(Writer)
    \/ CreateCommit(Writer)
    \/ /\ HistoryRoom(MaxHistory)
       /\ \E cid \in KnownIds, s \in Targets, n \in NotesValues :
              AdminUpdateStatus(Writer, cid, s, n)
    \/ UpdateSelect(Writer)
    \/ UpdateUpdate(Writer)
    \/ UpdateInsertHistory(Writer)
    \/ UpdateCommit(Writer)
    \/ Tick
    \/ \E st \in StatusFilters, d \in DepartmentFilters, pr \in PriorityFilters :
           \E page \in Pages, per_page \in PerPages :
               ListCount(Sequential, st, d, pr, page, per_page)
    \/ ListRows(Sequential)

SpecList == Init /\ [][NextList]_vars

\* the record passes the filters that were given
PassesFilters(c, status, department, priority) ==
    /\ Truthy(status) => c.status = status
    /\ Truthy(department) => c.department = department
    /\ Truthy(priority) => c.priority = priority

\* pages 1..ceil(n / per_page) of the table hold each of its matching rows once
PagesPartition(table, status, department, priority, per_page) ==
    LET m == Matching(table, status, department, priority)
        last == (Cardinality(m) + per_page - 1) \div per_page
    IN  \A r \in m :
            Cardinality({ki \in (1..last) \X (1..per_page) :
                            /\ ki[2] \in DOMAIN PageRows(table, status, department, priority,
                                                         ki[1], per_page)
                            /\ PageRows(table, status, department, priority,
                                        ki[1], per_page)[ki[2]] = r}) = 1

\* C34: for every combination of filters, page >= 1 and page_size >= 1, a list
\* call answers with total_count equal to the number of stored records that match
\* all given filters, and with a page of at most page_size records that all match
\* the filters; over an unchanged store, pages 1..ceil(total_count / page_size)
\* together hold each matching record exactly once.
C34_ListTotalAndPages ==
    [][\A p \in Procs :
           /\ proc[p].pc = "list_rows"
           /\ proc'[p].pc = "idle"
           => LET a == proc[p].args
                  e == response'.entries
              IN  /\ response'.op = "list"
                  /\ response'.total = Cardinality(Matching(complaints', a[1], a[2], a[3]))
                  /\ Len(e) <= a[5]
                  /\ \A i \in DOMAIN e : PassesFilters(e[i], a[1], a[2], a[3])
                  /\ PagesPartition(complaints', a[1], a[2], a[3], a[5])]_vars

\* the hours of the routing answered, or those route_complaint gives the same
\* extraction under another priority
RoutedHours(e, priority) ==
    IF priority = e.ai.priority THEN e.sla_hours
    ELSE route_complaint([e.ai EXCEPT !.priority = priority])[2]

\* C35: for every configured unit the deadline route returns is monotone in
\* urgency: deadline(high) <= deadline(medium) <= deadline(low).
C35_DeadlineMonotoneInUrgency ==
    (response.op = "route" /\ response.entries[1].ai.responsible_department \in DOMAIN DEPARTMENTS)
        => LET e == response.entries[1]
           IN  /\ e.department = e.ai.responsible_department
               /\ RoutedHours(e, "high") <= RoutedHours(e, "medium")
               /\ RoutedHours(e, "medium") <= RoutedHours(e, "low")

\* a high-priority complaint routed to a configured unit, in less than the
\* unit's base hours
C35_Witness ==
    /\ response.op = "route"
    /\ response.entries[1].ai.responsible_department \in DOMAIN DEPARTMENTS
    /\ response.entries[1].ai.priority = "high"
    /\ response.entries[1].sla_hours < DEPARTMENTS[response.entries[1].department].sla_hours

\* C36: in every reachable state every audit entry's complaint_id is the
\* complaint_id of a stored record (no orphan audit entries), under any
\* interleaving of registrations, failed ones included, and status updates.
C36_NoOrphanAuditEntries ==
    \A i \in DOMAIN status_history : HasRecord(complaints, status_history[i].complaint_id)

\* a registration has just failed on a store fault, while the store holds a
\* record with the audit entries of its registration and of a status update
C36_Witness ==
    /\ response.op = "register"
    /\ response.outcome = "StorageFault"
    /\ Len(complaints) = 1
    /\ Len(status_history) >= 2
    /\ \E i \in DOMAIN status_history : status_history[i].old_status # "new"

====
